---- MODULE Spec2Model ----
(***************************************************************************)
(* Model of the ingestion -> aggregation -> statistical-modelling pipeline *)
(* of src/src/lib/csvDataParser.ts and src/src/lib/parquetParser.ts.       *)
(*                                                                         *)
(* Numbers are exact rationals (mixed fractions in lowest terms): the      *)
(* model is of the arithmetic the code intends, without IEEE-754 rounding. *)
(* Strings whose characters the code inspects (utility labels, building    *)
(* names, column names, month keys) are sequences of one-character         *)
(* strings.  A JavaScript Map is a sequence of <<key, value>> pairs in     *)
(* insertion order.                                                        *)
(***************************************************************************)
EXTENDS Integers, Sequences, FiniteSets, TLC

\* ------------------------------------------------------------------------
\* Exact rational arithmetic (the model's "number")
\*
\* A number is a mixed fraction <<w, n, d>> = w + n/d with w an integer,
\* 0 <= n < d and n/d in lowest terms (d = 1 when n = 0): the form is
\* canonical, so = is numeric equality, and the parts stay small enough for
\* the checker's integers where a plain numerator would not.
\* ------------------------------------------------------------------------

\* `CHOOSE r \in { F(x, y) : x \in {a}, y \in {b} } : TRUE` is F(a, b) with
\* the arguments evaluated once, before the call (a strict call).

\* A local bound once to the value v and then used by Body: `const x = v; Body`
Const(v, Body(_)) == CHOOSE r \in { Body(x) : x \in {v} } : TRUE

Abs(x) == IF x < 0 THEN -x ELSE x

RECURSIVE GCD(_, _)
GCD(a, b) == IF b = 0 THEN a ELSE GCD(b, a % b)

\* w + r/d for integers w, d > 0 and 0 <= r < d, g the gcd of r and d
ReducedBy(w, r, d, g) == IF r = 0 THEN <<w, 0, 1>> ELSE <<w, r \div g, d \div g>>

Reduced(w, r, d) == CHOOSE m \in { ReducedBy(w, r, d, g) : g \in {GCD(r, d)} } : TRUE

\* w + n/d for any integers w, n and d > 0
Mixed(w, n, d) ==
  CHOOSE m \in { Reduced(w + (nn \div dd), nn % dd, dd) : nn \in {n}, dd \in {d} } : TRUE

\* n/d for d # 0
Rat(n, d) == IF d < 0 THEN Mixed(0, -n, -d) ELSE Mixed(0, n, d)

R(n) == <<n, 0, 1>>

RZero == <<0, 0, 1>>

ROne == <<1, 0, 1>>

\* x + y, g the gcd of the denominators
SumBy(x, y, g) ==
  Mixed(x[1] + y[1], x[2] * (y[3] \div g) + y[2] * (x[3] \div g), (x[3] \div g) * y[3])

Sum(x, y) ==
  IF x[2] = 0 /\ y[2] = 0 THEN <<x[1] + y[1], 0, 1>>
  ELSE CHOOSE m \in { SumBy(x, y, g) : g \in {GCD(x[3], y[3])} } : TRUE

RAdd(a, b) == CHOOSE m \in { Sum(x, y) : x \in {a}, y \in {b} } : TRUE

Negated(x) == IF x[2] = 0 THEN <<-x[1], 0, 1>> ELSE <<-x[1] - 1, x[3] - x[2], x[3]>>

RNeg(a) == CHOOSE m \in { Negated(x) : x \in {a} } : TRUE

RSub(a, b) == RAdd(a, RNeg(b))

\* w * (n/d) for an integer w and 0 <= n < d
IntTimesFrac(w, n, d) ==
  IF n = 0 \/ w = 0 THEN RZero ELSE Mixed((w \div d) * n, (w % d) * n, d)

\* (n1/d1) * (n2/d2) for two proper fractions in lowest terms, g1 the gcd of
\* n1 and d2, g2 the gcd of n2 and d1
FracTimesFracBy(n1, d1, n2, d2, g1, g2) ==
  Mixed(0, (n1 \div g1) * (n2 \div g2), (d1 \div g2) * (d2 \div g1))

FracTimesFrac(n1, d1, n2, d2) ==
  CHOOSE m \in { FracTimesFracBy(n1, d1, n2, d2, g1, g2) :
                 g1 \in {GCD(n1, d2)}, g2 \in {GCD(n2, d1)} } : TRUE

Product(x, y) ==
  IF x[2] = 0 /\ y[2] = 0 THEN <<x[1] * y[1], 0, 1>>
  ELSE RAdd(RAdd(R(x[1] * y[1]), FracTimesFrac(x[2], x[3], y[2], y[3])),
            RAdd(IntTimesFrac(x[1], y[2], y[3]), IntTimesFrac(y[1], x[2], x[3])))

RMul(a, b) == CHOOSE m \in { Product(x, y) : x \in {a}, y \in {b} } : TRUE

\* d / num for num # 0
Ratio(d, num) == IF num < 0 THEN Mixed(0, -d, -num) ELSE Mixed(0, d, num)

\* 1 / b for b # 0
RInv(b) == CHOOSE m \in { Ratio(y[3], y[1] * y[3] + y[2]) : y \in {b} } : TRUE

\* a / b for b # 0
RDiv(a, b) == RMul(a, RInv(b))

Less(x, y) ==
  IF x[1] # y[1] THEN x[1] < y[1]
  ELSE x[2] * (y[3] \div GCD(x[3], y[3])) < y[2] * (x[3] \div GCD(x[3], y[3]))

RLt(a, b) == \E x \in {a}, y \in {b} : Less(x, y)

RLe(a, b) == ~RLt(b, a)

RAbs(a) == CHOOSE m \in { IF Less(x, RZero) THEN Negated(x) ELSE x : x \in {a} } : TRUE

RMax(a, b) == CHOOSE m \in { IF Less(x, y) THEN y ELSE x : x \in {a}, y \in {b} } : TRUE

RMin(a, b) == CHOOSE m \in { IF Less(y, x) THEN y ELSE x : x \in {a}, y \in {b} } : TRUE

RSq(a) == CHOOSE m \in { Product(x, x) : x \in {a} } : TRUE

\* Math.floor, Math.ceil and Math.round (round half up) as integers
Floor(a) == a[1]

Ceil(a) == CHOOSE k \in { IF x[2] = 0 THEN x[1] ELSE x[1] + 1 : x \in {a} } : TRUE

Round(a) == CHOOSE k \in { IF 2 * x[2] >= x[3] THEN x[1] + 1 ELSE x[1] : x \in {a} } : TRUE

\* Math.round(x * scale) / scale
RoundTo(a, scale) == Rat(Round(RMul(a, R(scale))), scale)

\* values.reduce((s, v) => s + v, 0)
SumOf(values) ==
  LET F[i \in 0..Len(values)] == IF i = 0 THEN RZero ELSE RAdd(F[i - 1], values[i])
  IN  F[Len(values)]

RSum(s) == CHOOSE m \in { SumOf(values) : values \in {s} } : TRUE

\* ------------------------------------------------------------------------
\* Sequences, Maps
\* ------------------------------------------------------------------------

\* An absent value (null, undefined, an empty cell) and a present one
None == <<>>

Some(v) == <<v>>

SeqMap(s, F(_)) == [i \in 1..Len(s) |-> F(s[i])]

\* Array.prototype.slice(-n)
LastN(s, n) == IF Len(s) <= n THEN s ELSE SubSeq(s, Len(s) - n + 1, Len(s))

MapHas(m, k) == \E i \in 1..Len(m) : m[i][1] = k

MapGet(m, k) == m[CHOOSE i \in 1..Len(m) : m[i][1] = k][2]

\* Map.prototype.set: an existing key keeps its place, a new key goes last
MapSet(m, k, v) ==
  IF MapHas(m, k)
  THEN [i \in 1..Len(m) |-> IF m[i][1] = k THEN <<k, v>> ELSE m[i]]
  ELSE Append(m, <<k, v>>)

MapKeys(m) == [i \in 1..Len(m) |-> m[i][1]]

\* The elements of s at the indices idx, in the order of s
ElementsAt(s, idx) ==
  [k \in 1..Cardinality(idx) |->
    s[CHOOSE i \in idx : Cardinality({ j \in idx : j <= i }) = k]]

\* Array.prototype.filter
Filter(s, P(_)) ==
  CHOOSE kept \in { ElementsAt(s, idx) : idx \in { { i \in 1..Len(s) : P(s[i]) } } } : TRUE

\* x put into the sorted s before the first element it is less than
InsertSorted(x, s, Lt(_, _)) ==
  LET k == IF \E i \in 1..Len(s) : Lt(x, s[i])
           THEN CHOOSE i \in 1..Len(s) : Lt(x, s[i]) /\ \A j \in 1..(i - 1) : ~Lt(x, s[j])
           ELSE Len(s) + 1
  IN  SubSeq(s, 1, k - 1) \o <<x>> \o SubSeq(s, k, Len(s))

\* Array.prototype.sort(compare): stable, Lt(a, b) <=> compare(a, b) < 0
SortBy(s, Lt(_, _)) ==
  LET F[i \in 0..Len(s)] ==
        IF i = 0 THEN <<>>
        ELSE CHOOSE sorted \in { InsertSorted(s[i], before, Lt) : before \in {F[i - 1]} } : TRUE
  IN  F[Len(s)]

\* ------------------------------------------------------------------------
\* Strings as character sequences
\* ------------------------------------------------------------------------

Digits == <<"0", "1", "2", "3", "4", "5", "6", "7", "8", "9">>

DigitVal(c) == (CHOOSE i \in 1..10 : Digits[i] = c) - 1

\* String(n) for n >= 0
RECURSIVE NumToStr(_)
NumToStr(n) ==
  IF n < 10 THEN <<Digits[n + 1]>> ELSE NumToStr(n \div 10) \o <<Digits[(n % 10) + 1]>>

\* String.prototype.padStart(width, "0")
RECURSIVE PadStart(_, _)
PadStart(s, width) == IF Len(s) >= width THEN s ELSE PadStart(<<"0">> \o s, width)

\* Number(s) for a string of digits
RECURSIVE StrToNum(_)
StrToNum(s) ==
  IF s = <<>> THEN 0 ELSE 10 * StrToNum(SubSeq(s, 1, Len(s) - 1)) + DigitVal(s[Len(s)])

\* Collation order of the characters that occur in keys: "-" sorts before digits
CharOrd(c) == IF c = "-" THEN 0 ELSE 1 + DigitVal(c)

\* a.localeCompare(b) < 0
RECURSIVE StrLt(_, _)
StrLt(a, b) ==
  IF b = <<>> THEN FALSE
  ELSE IF a = <<>> THEN TRUE
  ELSE IF a[1] = b[1] THEN StrLt(Tail(a), Tail(b))
  ELSE CharOrd(a[1]) < CharOrd(b[1])

\* s.split("-")
RECURSIVE SplitDash(_)
SplitDash(s) ==
  IF \A i \in 1..Len(s) : s[i] # "-" THEN <<s>>
  ELSE LET i == CHOOSE j \in 1..Len(s) : s[j] = "-" /\ \A k \in 1..(j - 1) : s[k] # "-"
       IN  <<SubSeq(s, 1, i - 1)>> \o SplitDash(SubSeq(s, i + 1, Len(s)))

\* `${year}-${String(month).padStart(2, "0")}`, month = getMonth() + 1
MonthKey(year, month) == NumToStr(year) \o <<"-">> \o PadStart(NumToStr(month), 2)

LowerChars ==
  <<"a", "b", "c", "d", "e", "f", "g", "h", "i", "j", "k", "l", "m",
    "n", "o", "p", "q", "r", "s", "t", "u", "v", "w", "x", "y", "z">>

UpperChars ==
  <<"A", "B", "C", "D", "E", "F", "G", "H", "I", "J", "K", "L", "M",
    "N", "O", "P", "Q", "R", "S", "T", "U", "V", "W", "X", "Y", "Z">>

UpperChar(c) ==
  IF \E i \in 1..26 : LowerChars[i] = c
  THEN UpperChars[CHOOSE i \in 1..26 : LowerChars[i] = c]
  ELSE c

LowerChar(c) ==
  IF \E i \in 1..26 : UpperChars[i] = c
  THEN LowerChars[CHOOSE i \in 1..26 : UpperChars[i] = c]
  ELSE c

\* String.prototype.toUpperCase / toLowerCase
ToUpperCase(s) == [i \in 1..Len(s) |-> UpperChar(s[i])]

ToLowerCase(s) == [i \in 1..Len(s) |-> LowerChar(s[i])]

\* String.prototype.includes
Includes(s, sub) ==
  \E i \in 1..(Len(s) - Len(sub) + 1) : SubSeq(s, i, i + Len(sub) - 1) = sub

\* White space as String.prototype.trim sees it (the byte-order mark U+FEFF,
\* written "BOM", is white space to trim)
IsSpace(c) == c \in {" ", "BOM"}

RECURSIVE TrimStart(_)
TrimStart(s) == IF s # <<>> /\ IsSpace(s[1]) THEN TrimStart(Tail(s)) ELSE s

RECURSIVE TrimEnd(_)
TrimEnd(s) ==
  IF s # <<>> /\ IsSpace(s[Len(s)]) THEN TrimEnd(SubSeq(s, 1, Len(s) - 1)) ELSE s

\* String.prototype.trim
Trim(s) == TrimEnd(TrimStart(s))

\* ------------------------------------------------------------------------
\* Dates. An instant (Date.getTime()) is counted in minutes since
\* 1970-01-01T00:00Z; the offset of the runtime's local zone is in minutes
\* east of UTC and constant over a run.
\* ------------------------------------------------------------------------

MinutesPerHour == 60

MinutesPerDay == 1440

\* Days since 1970-01-01 of the civil date year-month-day (proleptic Gregorian)
DaysFromCivil(year, month, day) ==
  LET y == IF month <= 2 THEN year - 1 ELSE year
      era == y \div 400
      yoe == y - era * 400
      mp == IF month > 2 THEN month - 3 ELSE month + 9
      doy == (153 * mp + 2) \div 5 + day - 1
      doe == yoe * 365 + yoe \div 4 - yoe \div 100 + doy
  IN  era * 146097 + doe - 719468

\* The civil date of a day count since 1970-01-01
CivilFromDays(days) ==
  LET z == days + 719468
      era == z \div 146097
      doe == z - era * 146097
      yoe == (doe - doe \div 1460 + doe \div 36524 - doe \div 146096) \div 365
      doy == doe - (365 * yoe + yoe \div 4 - yoe \div 100)
      mp == (5 * doy + 2) \div 153
      m == IF mp < 10 THEN mp + 3 ELSE mp - 9
  IN  [year |-> yoe + era * 400 + (IF m <= 2 THEN 1 ELSE 0),
       month |-> m,
       day |-> doy - (153 * mp + 2) \div 5 + 1]

\* Date.UTC(year, month - 1, day, hour, minute) in minutes
UtcInstant(year, month, day, hour, minute) ==
  DaysFromCivil(year, month, day) * MinutesPerDay + hour * MinutesPerHour + minute

\* The fields of an instant's wall-clock time at an offset: getFullYear(),
\* getMonth() + 1, getDate(), getHours() at the local offset; offset 0 gives
\* the UTC fields
Fields(instant, offset) ==
  LET wall == instant + offset
      civil == CivilFromDays(wall \div MinutesPerDay)
  IN  [year |-> civil.year, month |-> civil.month, day |-> civil.day,
       hour |-> (wall % MinutesPerDay) \div MinutesPerHour]

\* new Date(year, month - 1, day, hour).getTime() in the local zone
LocalInstant(year, month, day, hour, offset) ==
  UtcInstant(year, month, day, hour, 0) - offset

\* date.toISOString().split("T")[0]
IsoDateKey(instant) ==
  LET f == Fields(instant, 0)
  IN  PadStart(NumToStr(f.year), 4) \o <<"-">> \o PadStart(NumToStr(f.month), 2)
        \o <<"-">> \o PadStart(NumToStr(f.day), 2)

\* ------------------------------------------------------------------------
\* Statistics helpers
\* ------------------------------------------------------------------------

clamp(value, min, max) == RMin(RMax(value, min), max)

SortNum(values) == SortBy(values, RLt)

median(values) ==
  IF Len(values) = 0 THEN RZero
  ELSE LET sorted == SortNum(values)
           mid == Len(sorted) \div 2
       IN  IF Len(sorted) % 2 = 0
           THEN RDiv(RAdd(sorted[mid], sorted[mid + 1]), R(2))
           ELSE sorted[mid + 1]

\* ------------------------------------------------------------------------
\* State
\* ------------------------------------------------------------------------

VARIABLES
  pc,                   \* position of the run: "stream" | "done" | "error"
  tzOffset,             \* offset of the runtime's local zone, minutes east of UTC
  rowCount,             \* rows of the primary source seen by the step handler
  elecRowCount,         \* rows that passed the electricity gate
  earliestTsMs,         \* Some(earliest accepted instant), None while Infinity
  siteMap,              \* Map<buildingname, {grossarea, code}>
  hourlyMap,            \* Map<hourTs, {kwh, tempSum, tempCount}>
  buildingStatsMap,     \* Map<buildingname, {totalKwh, count, grossarea}>
  buildingMonthMap,     \* Map<buildingname, Map<monthKey, kWh>>
  utilitySamples,       \* the first distinct utility labels seen, in order
  utilityMonthAggMap,   \* Map<utility, Map<monthKey, {total, unit}>>
  dailyWeatherMap,      \* Map<dateKey, {precipSum, precipCount, windSum, windCount}>
  bwMap,                \* Map<buildingname||dateKey, building-day sums>
  headersByFile,        \* per required file so far, the columns of its header
  weatherHeaderReadIssue, \* Some(message) once the primary's header was unreadable
  primarySource,        \* the source parseAllCsvFiles names as the one streamed
  reads,                \* the reads of the run so far: file, pass and outcome
  warnings,             \* what the run passed to console.warn
  runError,             \* Some(what the run threw), None while it has not thrown
  info,                 \* the AllCsvInfo of the result (None until returned)
  goldRows,             \* the GoldRow[] handed to buildParsedDataFromGold
  source,               \* the source whose header is validated
  header,               \* the cells of its header row, as written
  cursor,               \* how many of the source's required columns were considered
  writtenColumns,       \* the required columns written into the header, and how
  validation,           \* what the validator returned (None before)
  buildings,            \* the emitted Building[]
  hourlyData,           \* the emitted HourlyEntry[]
  dailyData,            \* the emitted DailyEntry[]
  buildingConsumption,  \* the emitted BuildingConsumption[]
  buildingMonthlyData,  \* the emitted BuildingMonthlyKwh[]
  buildingMoMChanges,   \* the emitted BuildingMoMChange[]
  forecastLocals,       \* per building of buildingMonthMap, the locals of the
                        \* prediction loop's iteration for it (empty until done)
  buildingPredictions,  \* the emitted BuildingPrediction[] (empty until done)
  weatherCorrelation,   \* the emitted summaryMetrics.weatherCorrelation
  weatherEntries,       \* the BuildingWeatherEntry[] handed to buildWeatherModel
  modelLocals,          \* the locals of buildWeatherModel at its return (None before)
  weatherModel,         \* what buildWeatherModel returned: None is null
  invocations,          \* per concurrent call of the pipeline: where it is, the
                        \* rows of its source, its maps and what it returned
  primaries             \* the map sets that calls of parsePrimaryCsv created

\* What the step handler of parsePrimaryCsv accumulates
streamVars ==
  <<rowCount, elecRowCount, earliestTsMs, siteMap, hourlyMap, buildingStatsMap,
    buildingMonthMap, utilitySamples, utilityMonthAggMap, dailyWeatherMap, bwMap>>

\* The fields of the emitted ParsedData, and the locals of the prediction loop
outVars ==
  <<buildings, hourlyData, dailyData, buildingConsumption, buildingMonthlyData,
    buildingMoMChanges, forecastLocals, buildingPredictions, weatherCorrelation>>

\* The input of the gold path
goldVars == <<goldRows>>

\* The input and the result of schema validation
schemaVars == <<source, header, cursor, writtenColumns, validation>>

\* The input and the result of buildWeatherModel
modelVars == <<weatherEntries, modelLocals, weatherModel>>

\* The locals of parseAllCsvFiles around the stream: the reads it awaited and
\* what it logged, threw and recorded
runVars ==
  <<headersByFile, weatherHeaderReadIssue, primarySource, reads, warnings, runError, info>>

\* The inputs of the entry points beside parseAllCsvFiles' stream
sideVars == <<goldVars, schemaVars, modelVars, runVars>>

\* The calls of the pipeline that run side by side, and their maps
twoVars == <<invocations, primaries>>

vars == <<pc, tzOffset, twoVars, streamVars, sideVars, outVars>>

\* No call runs beside the one the other variables describe
EmptyTwo ==
  /\ invocations = <<>>
  /\ primaries = <<>>

\* No header under validation
EmptySchema ==
  /\ source = ""
  /\ header = <<>>
  /\ cursor = 0
  /\ writtenColumns = {}
  /\ validation = None

\* No panel handed to buildWeatherModel
EmptyModel ==
  /\ weatherEntries = <<>>
  /\ modelLocals = None
  /\ weatherModel = None

PrimaryFile == "meter_building_weather_merged.csv"

SecondaryFile == "meter_building_merged.csv"

\* parseAllCsvFiles has read nothing yet
EmptyRun ==
  /\ headersByFile = <<>>
  /\ weatherHeaderReadIssue = None
  /\ primarySource = PrimaryFile
  /\ reads = <<>>
  /\ warnings = <<>>
  /\ runError = None
  /\ info = None

EmptySide ==
  /\ goldRows = <<>>
  /\ EmptySchema
  /\ EmptyModel
  /\ EmptyRun

\* Nothing streamed yet
EmptyStream ==
  /\ rowCount = 0
  /\ elecRowCount = 0
  /\ earliestTsMs = None
  /\ siteMap = <<>>
  /\ hourlyMap = <<>>
  /\ buildingStatsMap = <<>>
  /\ buildingMonthMap = <<>>
  /\ utilitySamples = <<>>
  /\ utilityMonthAggMap = <<>>
  /\ dailyWeatherMap = <<>>
  /\ bwMap = <<>>

\* Nothing emitted yet
EmptyOut ==
  /\ buildings = <<>>
  /\ hourlyData = <<>>
  /\ dailyData = <<>>
  /\ buildingConsumption = <<>>
  /\ buildingMonthlyData = <<>>
  /\ buildingMoMChanges = <<>>
  /\ forecastLocals = <<>>
  /\ buildingPredictions = <<>>
  /\ weatherCorrelation = RZero

\* ------------------------------------------------------------------------
\* Robust month-over-month forecaster (parseAllCsvFiles, buildingPredictions)
\* ------------------------------------------------------------------------

ValidMonthFloorMin == 10000

RecentWindow == 6

FloorShare == Rat(1, 5)

MaxAbsPctChange == Rat(2, 5)

LastMonthWeight == Rat(13, 20)

RecentMeanWeight == Rat(7, 20)

MinPredictedFactor == Rat(3, 4)

MaxPredictedFactor == Rat(5, 4)

\* Math.max(0, kwh) of a [monthKey, kwh] entry
EntryKwh(e) == RMax(RZero, e[2])

EntryKeyLt(a, b) == StrLt(a[1], b[1])

\* Mutant of SortedMonths: the entries stay in the order the map holds them
SortedMonthsUnsorted(months) == months

\* Array.from(months.entries()).sort(([a], [b]) => a.localeCompare(b))
SortedMonths(months) == SortBy(months, EntryKeyLt)

IsPositiveEntry(e) == RLt(RZero, EntryKwh(e))

\* Math.max(10_000, median * 0.2)
MonthFloorKwh(recentValues) ==
  RMax(R(ValidMonthFloorMin), RMul(median(recentValues), FloorShare))

\* Mutant of ValidMonths: the floor filter is dropped
ValidMonthsNoFloor(sortedMonths, validMonthFloorKwh) == sortedMonths

\* sortedMonths.filter(([, kwh]) => Math.max(0, kwh) >= validMonthFloorKwh)
ValidMonths(sortedMonths, validMonthFloorKwh) ==
  LET AtFloor(e) == RLe(validMonthFloorKwh, EntryKwh(e))
  IN  Filter(sortedMonths, AtFloor)

\* Mutant of EffectiveMonths: no fall-back to the positive months
EffectiveMonthsValidOnly(sortedMonths, validMonths) == validMonths

\* validMonths.length >= 2 ? validMonths : the months with a positive value
EffectiveMonths(sortedMonths, validMonths) ==
  IF Len(validMonths) >= 2 THEN validMonths ELSE Filter(sortedMonths, IsPositiveEntry)

\* Mutant of PctTransitions: changes of any magnitude are kept
PctTransitionsUnbounded(effectiveMonths, baselineFloorKwh) ==
  LET F[i \in 1..Len(effectiveMonths)] ==
        IF i = 1 THEN <<>>
        ELSE IF RLt(EntryKwh(effectiveMonths[i - 1]), baselineFloorKwh) THEN F[i - 1]
             ELSE Append(F[i - 1],
                    [prev |-> effectiveMonths[i - 1],
                     curr |-> effectiveMonths[i],
                     pct |-> RDiv(RSub(EntryKwh(effectiveMonths[i]),
                                       EntryKwh(effectiveMonths[i - 1])),
                                  EntryKwh(effectiveMonths[i - 1]))])
  IN  F[Len(effectiveMonths)]

\* The transitions between consecutive effective months whose change is kept:
\* [prev, curr: the two entries, pct: (curr - prev) / prev]
PctTransitions(effectiveMonths, baselineFloorKwh) ==
  LET F[i \in 1..Len(effectiveMonths)] ==
        IF i = 1 THEN <<>>
        ELSE LET prev == EntryKwh(effectiveMonths[i - 1])
                 curr == EntryKwh(effectiveMonths[i])
             IN  IF RLt(prev, baselineFloorKwh) THEN F[i - 1]
                 ELSE LET pctChange == RDiv(RSub(curr, prev), prev)
                      IN  IF RLe(RAbs(pctChange), MaxAbsPctChange)
                          THEN Append(F[i - 1],
                                 [prev |-> effectiveMonths[i - 1],
                                  curr |-> effectiveMonths[i],
                                  pct |-> pctChange])
                          ELSE F[i - 1]
  IN  F[Len(effectiveMonths)]

PctOf(t) == t.pct

\* Mutant of ClampPrediction: the raw estimate is emitted unclamped
ClampPredictionNone(rawPredictedKwh, minPredictedKwh, maxPredictedKwh) == rawPredictedKwh

\* clamp(rawPredictedKwh, minPredictedKwh, maxPredictedKwh)
ClampPrediction(rawPredictedKwh, minPredictedKwh, maxPredictedKwh) ==
  clamp(rawPredictedKwh, minPredictedKwh, maxPredictedKwh)

\* The body of the prediction loop for one building, with the values of its
\* locals: emit is FALSE where the code takes one of its `continue`s (the
\* locals computed after that point are then absent from the record).
\* Each `const` of the loop body is bound once, in the order of the code.
Forecast(months) ==
  Const(SortedMonths(months), LAMBDA sortedMonths :
  Const(SeqMap(Filter(sortedMonths, IsPositiveEntry), EntryKwh), LAMBDA positiveValues :
  Const(MonthFloorKwh(LastN(positiveValues, RecentWindow)), LAMBDA validMonthFloorKwh :
  Const(ValidMonths(sortedMonths, validMonthFloorKwh), LAMBDA validMonths :
  Const(EffectiveMonths(sortedMonths, validMonths), LAMBDA effectiveMonths :
  IF Len(sortedMonths) < 2 \/ Len(positiveValues) < 2 \/ Len(effectiveMonths) < 2
  THEN [emit |-> FALSE]
  ELSE
  Const(effectiveMonths[Len(effectiveMonths)], LAMBDA lastMonthEntry :
  Const(EntryKwh(lastMonthEntry), LAMBDA lastMonthKwh :
  Const(LastN(SeqMap(effectiveMonths, EntryKwh), RecentWindow), LAMBDA recentKwh :
  Const(RDiv(RSum(recentKwh), R(Len(recentKwh))), LAMBDA recentMean :
  Const(MonthFloorKwh(recentKwh), LAMBDA baselineFloorKwh :
  Const(PctTransitions(effectiveMonths, baselineFloorKwh), LAMBDA pctTransitions :
  Const(SeqMap(pctTransitions, PctOf), LAMBDA pctChanges :
  Const(IF Len(pctChanges) > 0 THEN median(pctChanges) ELSE RZero, LAMBDA robustMoMChange :
  Const(RAdd(RMul(lastMonthKwh, LastMonthWeight), RMul(recentMean, RecentMeanWeight)),
        LAMBDA baselineKwh :
  Const(RMul(baselineKwh, RAdd(ROne, robustMoMChange)), LAMBDA rawPredictedKwh :
  Const(RMul(lastMonthKwh, MinPredictedFactor), LAMBDA minPredictedKwh :
  Const(RMax(minPredictedKwh, RMul(lastMonthKwh, MaxPredictedFactor)),
        LAMBDA maxPredictedKwh :
  Const(ClampPrediction(rawPredictedKwh, minPredictedKwh, maxPredictedKwh),
        LAMBDA predictedKwh :
    [emit |-> TRUE,
     sortedMonths |-> sortedMonths,
     validMonthFloorKwh |-> validMonthFloorKwh,
     validMonths |-> validMonths,
     effectiveMonths |-> effectiveMonths,
     lastMonthKey |-> lastMonthEntry[1],
     lastMonthKwh |-> lastMonthKwh,
     baselineFloorKwh |-> baselineFloorKwh,
     pctTransitions |-> pctTransitions,
     robustMoMChange |-> robustMoMChange,
     rawPredictedKwh |-> rawPredictedKwh,
     predictedKwh |-> predictedKwh]
  ))))))))))))))))))

\* The period after lastMonthKey: December rolls over to January of the next year
PredictedMonthLabel(lastMonthKey) ==
  LET parts == SplitDash(lastMonthKey)
      y == StrToNum(parts[1])
      m == StrToNum(parts[2])
  IN  [month |-> IF m = 12 THEN 1 ELSE m + 1, year |-> IF m = 12 THEN y + 1 ELSE y]

\* What the loop body pushes: <<>> when the building is skipped, else <<record>>
BuildingPrediction(buildingname, f) ==
  IF ~f.emit THEN <<>>
  ELSE << [name |-> buildingname,
           lastMonthKwh |-> Round(f.lastMonthKwh),
           predictedKwh |-> Round(f.predictedKwh),
           avgMoMChangePct |-> Rat(Round(RMul(f.robustMoMChange, R(10000))), 100),
           predictedMonthLabel |-> PredictedMonthLabel(f.lastMonthKey)] >>

\* The locals of the loop `for (const [buildingname, months] of buildingMonthMap)`
ForecastLocals(monthMap) == [i \in 1..Len(monthMap) |-> Forecast(monthMap[i][2])]

LastMonthDesc(a, b) == a.lastMonthKwh > b.lastMonthKwh

\* The pushes of the loop in map order, then
\* buildingPredictions.sort((a, b) => b.lastMonthKwh - a.lastMonthKwh)
BuildingPredictions(monthMap, locals) ==
  LET F[i \in 0..Len(monthMap)] ==
        IF i = 0 THEN <<>>
        ELSE F[i - 1] \o BuildingPrediction(monthMap[i][1], locals[i])
  IN  SortBy(F[Len(monthMap)], LastMonthDesc)

\* ------------------------------------------------------------------------
\* Schema validation (validateColumns over a parsed header; validateGoldColumns)
\* ------------------------------------------------------------------------

REQUIRED_FILES ==
  << "meter_premerge_selected.csv", "meter_building_merged.csv",
     "meter_building_weather_merged.csv", "building_metadata_selected.csv",
     "weather_daily_selected.csv" >>

EXPECTED_COLUMNS(fileName) ==
  IF fileName = "meter_premerge_selected.csv" THEN
    << <<"s", "i", "m", "s", "c", "o", "d", "e">>,
       <<"u", "t", "i", "l", "i", "t", "y">>,
       <<"r", "e", "a", "d", "i", "n", "g", "t", "i", "m", "e">>,
       <<"r", "e", "a", "d", "i", "n", "g", "u", "n", "i", "t", "s">>,
       <<"r", "e", "a", "d", "i", "n", "g", "u", "n", "i", "t", "s", "d", "i", "s", "p", "l", "a", "y">>,
       <<"r", "e", "a", "d", "i", "n", "g", "w", "i", "n", "d", "o", "w", "s", "u", "m">> >>
  ELSE IF fileName = "meter_building_merged.csv" THEN
    << <<"s", "i", "m", "s", "c", "o", "d", "e">>,
       <<"u", "t", "i", "l", "i", "t", "y">>,
       <<"r", "e", "a", "d", "i", "n", "g", "t", "i", "m", "e">>,
       <<"r", "e", "a", "d", "i", "n", "g", "u", "n", "i", "t", "s">>,
       <<"r", "e", "a", "d", "i", "n", "g", "u", "n", "i", "t", "s", "d", "i", "s", "p", "l", "a", "y">>,
       <<"r", "e", "a", "d", "i", "n", "g", "w", "i", "n", "d", "o", "w", "s", "u", "m">>,
       <<"b", "u", "i", "l", "d", "i", "n", "g", "n", "u", "m", "b", "e", "r">>,
       <<"b", "u", "i", "l", "d", "i", "n", "g", "n", "a", "m", "e">>,
       <<"c", "a", "m", "p", "u", "s", "n", "a", "m", "e">>,
       <<"c", "i", "t", "y">>,
       <<"l", "a", "t", "i", "t", "u", "d", "e">>,
       <<"l", "o", "n", "g", "i", "t", "u", "d", "e">> >>
  ELSE IF fileName = "meter_building_weather_merged.csv" THEN
    << <<"s", "i", "m", "s", "c", "o", "d", "e">>,
       <<"u", "t", "i", "l", "i", "t", "y">>,
       <<"r", "e", "a", "d", "i", "n", "g", "t", "i", "m", "e">>,
       <<"r", "e", "a", "d", "i", "n", "g", "u", "n", "i", "t", "s">>,
       <<"r", "e", "a", "d", "i", "n", "g", "u", "n", "i", "t", "s", "d", "i", "s", "p", "l", "a", "y">>,
       <<"r", "e", "a", "d", "i", "n", "g", "w", "i", "n", "d", "o", "w", "s", "u", "m">>,
       <<"b", "u", "i", "l", "d", "i", "n", "g", "n", "u", "m", "b", "e", "r">>,
       <<"b", "u", "i", "l", "d", "i", "n", "g", "n", "a", "m", "e">>,
       <<"g", "r", "o", "s", "s", "a", "r", "e", "a">>,
       <<"t", "e", "m", "p", "e", "r", "a", "t", "u", "r", "e", "_", "2", "m">> >>
  ELSE IF fileName = "building_metadata_selected.csv" THEN
    << <<"b", "u", "i", "l", "d", "i", "n", "g", "n", "u", "m", "b", "e", "r">>,
       <<"b", "u", "i", "l", "d", "i", "n", "g", "n", "a", "m", "e">> >>
  ELSE
    << <<"d", "a", "t", "e">>,
       <<"t", "e", "m", "p", "e", "r", "a", "t", "u", "r", "e", "_", "2", "m">> >>

REQUIRED_COLUMNS ==
  << <<"r", "e", "a", "d", "i", "n", "g", "t", "i", "m", "e">>,
     <<"r", "e", "a", "d", "i", "n", "g", "v", "a", "l", "u", "e">>,
     <<"s", "i", "t", "e", "n", "a", "m", "e">>,
     <<"t", "e", "m", "p", "e", "r", "a", "t", "u", "r", "e", "_", "2", "m">>,
     <<"g", "r", "o", "s", "s", "a", "r", "e", "a">>,
     <<"k", "w", "h", "_", "p", "e", "r", "_", "s", "q", "f", "t">> >>

\* key.replace(/^\uFEFF/, "").trim()
normalizeColumnName(key) ==
  Trim(IF key # <<>> /\ key[1] = "BOM" THEN Tail(key) ELSE key)

IsNonEmpty(c) == Len(c) > 0

\* columns.map(normalizeColumnName).filter((c) => c.length > 0)
sanitizeColumns(cols) == Filter(SeqMap(cols, normalizeColumnName), IsNonEmpty)

\* Mutant of ColumnKey: the name is compared as it is written
ColumnKeyAsWritten(c) == c

\* c.toLowerCase().trim(): the key a column of the header is matched by
ColumnKey(c) == Trim(ToLowerCase(c))

Range(seq) == { seq[i] : i \in 1..Len(seq) }

\* validateColumns: None where no expected column is missing, else the parts
\* of the message "<fileName> is missing required columns: <missing joined>.
\* Found columns: <actualColumns joined>"
validateColumns(fileName, actualColumns) ==
  LET lower == Range(SeqMap(actualColumns, ColumnKey))
      IsMissing(c) == c \notin lower
      missing == Filter(EXPECTED_COLUMNS(fileName), IsMissing)
  IN  IF Len(missing) > 0
      THEN Some([fileName |-> fileName, missing |-> missing, found |-> actualColumns])
      ELSE None

\* validateGoldColumns: the required columns no column equals in lower case
validateGoldColumns(cols) ==
  LET lower == Range(SeqMap(cols, ToLowerCase))
      IsMissing(req) == req \notin lower
  IN  Filter(REQUIRED_COLUMNS, IsMissing)

\* ------------------------------------------------------------------------
\* Streaming of the primary source (parsePrimaryCsv, step handler).
\* A row holds the cells the handler reads: utility and buildingname are
\* strings, readingtime is Some(the instant its text denotes) or None where the
\* text is empty or no date, the numeric cells are the numbers their text
\* denotes or None where it is empty or no number.
\* ------------------------------------------------------------------------

toNum(val) == IF val = None THEN RZero ELSE val

toStr(val) == Trim(val)

\* Some(date) or None
toDate(val) == val

\* date.getTime()
GetTime(date) == date[1]

ElecToken == <<"E", "L", "E", "C">>

isElectricityUtility(utility) == Includes(ToUpperCase(utility), ElecToken)

\* `${getFullYear()}-${String(getMonth() + 1).padStart(2, "0")}` of a local date
LocalMonthKey(readingDate, offset) ==
  LET f == Fields(readingDate, offset) IN MonthKey(f.year, f.month)

\* new Date(getFullYear(), getMonth(), getDate(), getHours()).getTime()
HourTs(readingDate, offset) ==
  LET f == Fields(readingDate, offset)
  IN  LocalInstant(f.year, f.month, f.day, f.hour, offset)

\* The row passes the gate `!utility || !isElectricityUtility(utility) || !readingDate`
PassesGate(row) ==
  LET utility == Trim(toStr(row.utility))
  IN  utility # <<>> /\ isElectricityUtility(utility) /\ toDate(row.readingtime) # None

EmptyHourAgg == [kwh |-> RZero, tempSum |-> RZero, tempCount |-> 0]

\* hourlyMap after the accepted row
HourlyMapAfter(map, row, offset) ==
  LET hourTs == HourTs(GetTime(toDate(row.readingtime)), offset)
      hourAgg == IF MapHas(map, hourTs) THEN MapGet(map, hourTs) ELSE EmptyHourAgg
      temperature == toNum(row.temperature_2m)
  IN  MapSet(map, hourTs,
        [kwh |-> RAdd(hourAgg.kwh, toNum(row.readingwindowsum)),
         tempSum |-> IF temperature # RZero
                     THEN RAdd(hourAgg.tempSum, temperature) ELSE hourAgg.tempSum,
         tempCount |-> IF temperature # RZero
                       THEN hourAgg.tempCount + 1 ELSE hourAgg.tempCount])

\* Mutant of SiteMapAfter: every accepted row of a building sets its entry
SiteMapOverwritten(map, row) ==
  LET buildingName == toStr(row.buildingname)
  IN  IF buildingName # <<>>
      THEN MapSet(map, buildingName,
             [grossarea |-> toNum(row.grossarea), code |-> toStr(row.simscode)])
      ELSE map

\* siteMap after the accepted row: the first row of a building sets its entry
SiteMapAfter(map, row) ==
  LET buildingName == toStr(row.buildingname)
  IN  IF buildingName # <<>> /\ ~MapHas(map, buildingName)
      THEN MapSet(map, buildingName,
             [grossarea |-> toNum(row.grossarea), code |-> toStr(row.simscode)])
      ELSE map

\* buildingStatsMap after the accepted row
BuildingStatsMapAfter(map, row) ==
  LET buildingName == toStr(row.buildingname)
      grossarea == toNum(row.grossarea)
      buildingAgg == IF MapHas(map, buildingName) THEN MapGet(map, buildingName)
                     ELSE [totalKwh |-> RZero, count |-> 0, grossarea |-> grossarea]
  IN  IF buildingName = <<>> THEN map
      ELSE MapSet(map, buildingName,
             [totalKwh |-> RAdd(buildingAgg.totalKwh, toNum(row.readingwindowsum)),
              count |-> buildingAgg.count + 1,
              grossarea |-> IF buildingAgg.grossarea = RZero
                            THEN grossarea ELSE buildingAgg.grossarea])

\* Mutant of BuildingMonthMapAfter: the row's reading replaces the month's sum
BuildingMonthMapReplaced(map, row, offset) ==
  LET buildingName == toStr(row.buildingname)
      monthKey == LocalMonthKey(GetTime(toDate(row.readingtime)), offset)
      monthAgg == IF MapHas(map, buildingName) THEN MapGet(map, buildingName) ELSE <<>>
  IN  IF buildingName = <<>> THEN map
      ELSE MapSet(map, buildingName,
             MapSet(monthAgg, monthKey, toNum(row.readingwindowsum)))

\* buildingMonthMap after the accepted row
BuildingMonthMapAfter(map, row, offset) ==
  LET buildingName == toStr(row.buildingname)
      monthKey == LocalMonthKey(GetTime(toDate(row.readingtime)), offset)
      monthAgg == IF MapHas(map, buildingName) THEN MapGet(map, buildingName) ELSE <<>>
      before == IF MapHas(monthAgg, monthKey) THEN MapGet(monthAgg, monthKey) ELSE RZero
  IN  IF buildingName = <<>> THEN map
      ELSE MapSet(map, buildingName,
             MapSet(monthAgg, monthKey, RAdd(before, toNum(row.readingwindowsum))))

\* a || b on numbers: b where a is 0 or absent
OrNum(a, b) == IF a = None \/ a = RZero THEN b ELSE a

\* a || b on strings: b where a is empty or absent
OrStr(a, b) == IF a = <<>> THEN b ELSE a

\* Mutant of RowCountAfter: a row without a date is not counted
RowCountDated(count, row) ==
  IF toDate(row.readingtime) = None THEN count ELSE count + 1

\* rowCount += 1, for every row that has cells
RowCountAfter(count, row) == count + 1

\* How many distinct utility labels are sampled
MaxUtilitySamples == 25

\* Mutant of UtilitySamplesAfter: every label is added, whatever the size
UtilitySamplesUncapped(samples, row) ==
  LET utility == Trim(toStr(row.utility))
  IN  IF utility # <<>> /\ \A i \in 1..Len(samples) : samples[i] # utility
      THEN Append(samples, utility) ELSE samples

\* utilitySamples after the row: `if (utilitySamples.size < 25) utilitySamples.add(utility)`
UtilitySamplesAfter(samples, row) ==
  LET utility == Trim(toStr(row.utility))
  IN  IF utility # <<>> /\ Len(samples) < MaxUtilitySamples
         /\ \A i \in 1..Len(samples) : samples[i] # utility
      THEN Append(samples, utility) ELSE samples

DefaultUnit == <<"k", "W", "h">>

\* The row has a utility label and a readingtime that is a date
HasUtilityAndDate(row) ==
  Trim(toStr(row.utility)) # <<>> /\ toDate(row.readingtime) # None

\* existing.total += toNum(row["readingwindowsum"])
UtilityMonthAfter(existing, row) ==
  [total |-> RAdd(existing.total, toNum(row.readingwindowsum)), unit |-> existing.unit]

\* utilityMonths.get(monthKey) || { total: 0, unit: ... }
UtilityMonthOr(utilityMonths, monthKey, row) ==
  IF MapHas(utilityMonths, monthKey) THEN MapGet(utilityMonths, monthKey)
  ELSE [total |-> RZero,
        unit |-> OrStr(toStr(row.readingunitsdisplay),
                       OrStr(toStr(row.readingunits), DefaultUnit))]

\* The months of a utility after the row
UtilityMonthsAfter(utilityMonths, monthKey, row) ==
  MapSet(utilityMonths, monthKey,
         UtilityMonthAfter(UtilityMonthOr(utilityMonths, monthKey, row), row))

\* utilityMonthAggMap after a row of the utility in the month monthKey
UtilityMonthAggMapAt(map, utility, monthKey, row) ==
  MapSet(map, utility,
         UtilityMonthsAfter(IF MapHas(map, utility) THEN MapGet(map, utility) ELSE <<>>,
                            monthKey, row))

\* Mutant of UtilityMonthAggMapAfter: the totals are fed behind the
\* electricity gate
UtilityMonthAggMapElecOnly(map, row, offset) ==
  IF ~PassesGate(row) THEN map
  ELSE CHOOSE after \in
         { UtilityMonthAggMapAt(map, utility, monthKey, row) :
           utility \in {Trim(toStr(row.utility))},
           monthKey \in {LocalMonthKey(GetTime(toDate(row.readingtime)), offset)} } : TRUE

\* utilityMonthAggMap after the row: every row with a label and a date adds
\* its reading to the month of its utility
UtilityMonthAggMapAfter(map, row, offset) ==
  IF ~HasUtilityAndDate(row) THEN map
  ELSE CHOOSE after \in
         { UtilityMonthAggMapAt(map, utility, monthKey, row) :
           utility \in {Trim(toStr(row.utility))},
           monthKey \in {LocalMonthKey(GetTime(toDate(row.readingtime)), offset)} } : TRUE

\* readingDate.toISOString().split("T")[0]
DateKey(row) == IsoDateKey(GetTime(toDate(row.readingtime)))

EmptyWeatherAgg == [precipSum |-> RZero, precipCount |-> 0, windSum |-> RZero, windCount |-> 0]

\* The sums of a date after a reading of precipitation and wind speed, each
\* counted where it is not 0
WeatherAggAfter(weatherAgg, precipitation, windSpeed) ==
  [precipSum |-> IF precipitation # RZero
                 THEN RAdd(weatherAgg.precipSum, precipitation) ELSE weatherAgg.precipSum,
   precipCount |-> IF precipitation # RZero
                   THEN weatherAgg.precipCount + 1 ELSE weatherAgg.precipCount,
   windSum |-> IF windSpeed # RZero
               THEN RAdd(weatherAgg.windSum, windSpeed) ELSE weatherAgg.windSum,
   windCount |-> IF windSpeed # RZero
                 THEN weatherAgg.windCount + 1 ELSE weatherAgg.windCount]

\* dailyWeatherMap after an accepted row of the date dateKey
DailyWeatherMapAt(map, dateKey, row) ==
  MapSet(map, dateKey,
         WeatherAggAfter(IF MapHas(map, dateKey) THEN MapGet(map, dateKey)
                         ELSE EmptyWeatherAgg,
                         toNum(row.precipitation), toNum(row.wind_speed_10m)))

\* dailyWeatherMap after the accepted row
DailyWeatherMapAfter(map, row) ==
  CHOOSE after \in { DailyWeatherMapAt(map, dateKey, row) : dateKey \in {DateKey(row)} } :
    TRUE

\* `${buildingName}||${dateKey}`
BwKey(buildingName, dateKey) == buildingName \o <<"|", "|">> \o dateKey

EmptyBwAgg(buildingName, dateKey) ==
  [kwh |-> RZero, tempSum |-> RZero, tempCount |-> 0, precipSum |-> RZero,
   precipCount |-> 0, windSum |-> RZero, windCount |-> 0,
   date |-> dateKey, building |-> buildingName]

\* The building-day sums after the accepted row
BwAggAfter(bwAgg, row) ==
  [kwh |-> RAdd(bwAgg.kwh, toNum(row.readingwindowsum)),
   tempSum |-> IF toNum(row.temperature_2m) # RZero
               THEN RAdd(bwAgg.tempSum, toNum(row.temperature_2m)) ELSE bwAgg.tempSum,
   tempCount |-> IF toNum(row.temperature_2m) # RZero
                 THEN bwAgg.tempCount + 1 ELSE bwAgg.tempCount,
   precipSum |-> RAdd(bwAgg.precipSum, toNum(row.precipitation)),
   precipCount |-> bwAgg.precipCount + 1,
   windSum |-> RAdd(bwAgg.windSum, toNum(row.wind_speed_10m)),
   windCount |-> bwAgg.windCount + 1,
   date |-> bwAgg.date,
   building |-> bwAgg.building]

\* bwMap after an accepted row of the building buildingName on the date dateKey
BwMapAt(map, buildingName, dateKey, bwKey, row) ==
  MapSet(map, bwKey,
         BwAggAfter(IF MapHas(map, bwKey) THEN MapGet(map, bwKey)
                    ELSE EmptyBwAgg(buildingName, dateKey), row))

\* bwMap after an accepted row of a building on the date dateKey
BwMapOn(map, buildingName, dateKey, row) ==
  CHOOSE after \in
    { BwMapAt(map, buildingName, dateKey, bwKey, row) :
      bwKey \in {BwKey(buildingName, dateKey)} } : TRUE

\* bwMap after the accepted row: the building-day sums
BwMapAfter(map, row) ==
  IF toStr(row.buildingname) = <<>> THEN map
  ELSE CHOOSE after \in
         { BwMapOn(map, buildingName, dateKey, row) :
           buildingName \in {toStr(row.buildingname)}, dateKey \in {DateKey(row)} } : TRUE

\* ------------------------------------------------------------------------
\* Derived series (parseAllCsvFiles, after the stream)
\* ------------------------------------------------------------------------

\* metaMap: buildingname -> {grossarea} from building_metadata_selected.csv
MetaMap(metaRows) ==
  LET F[i \in 0..Len(metaRows)] ==
        IF i = 0 THEN <<>>
        ELSE IF toStr(metaRows[i].buildingname) = <<>> THEN F[i - 1]
             ELSE MapSet(F[i - 1], toStr(metaRows[i].buildingname),
                         [grossarea |-> toNum(metaRows[i].grossarea)])
  IN  F[Len(metaRows)]

\* ------------------------------------------------------------------------
\* classifyBuildingType (parseAllCsvFiles): the category of a building name
\* ------------------------------------------------------------------------

\* The alternatives of the four patterns, in the order they are tested
UtilityPatterns ==
  << <<"s", "u", "b", "s", "t", "a", "t", "i", "o", "n">>,
     <<"p", "l", "a", "n", "t">>,
     <<"u", "t", "i", "l", "i", "t", "y">>,
     <<"c", "e", "n", "t", "r", "a", "l">>,
     <<"c", "h", "i", "l", "l", "e", "r">>,
     <<"b", "o", "i", "l", "e", "r">>,
     <<"p", "o", "w", "e", "r">>,
     <<"s", "e", "r", "v", "i", "c", "e">>,
     <<"g", "a", "r", "a", "g", "e">>,
     <<"p", "a", "r", "k", "i", "n", "g">>,
     <<"t", "u", "n", "n", "e", "l">>,
     <<"s", "t", "e", "a", "m">> >>

LabsPatterns ==
  << <<"l", "a", "b">>,
     <<"r", "e", "s", "e", "a", "r", "c", "h">>,
     <<"s", "c", "i", "e", "n", "c", "e">>,
     <<"c", "h", "e", "m", "i", "s", "t", "r", "y">>,
     <<"p", "h", "y", "s", "i", "c", "s">>,
     <<"b", "i", "o", "l", "o", "g", "y">>,
     <<"e", "n", "g", "i", "n", "e", "e", "r", "i", "n", "g">>,
     <<"m", "e", "d", "i", "c", "a", "l">>,
     <<"h", "o", "s", "p", "i", "t", "a", "l">>,
     <<"v", "e", "t", "e", "r", "i", "n", "a", "r">> >>

ResidentialPatterns ==
  << <<"r", "e", "s", "i", "d", "e", "n", "c", "e">>,
     <<"d", "o", "r", "m">>,
     <<"l", "i", "v", "i", "n", "g">>,
     <<"a", "p", "a", "r", "t", "m", "e", "n", "t">> >>

AthleticsPatterns ==
  << <<"s", "t", "a", "d", "i", "u", "m">>,
     <<"a", "r", "e", "n", "a">>,
     <<"r", "e", "c", "r", "e", "a", "t", "i", "o", "n">>,
     <<"g", "y", "m">>,
     <<"a", "t", "h", "l", "e", "t", "i", "c">>,
     <<"f", "i", "e", "l", "d">>,
     <<"w", "e", "l", "l", "n", "e", "s", "s">>,
     <<"a", "q", "u", "a", "t", "i", "c">>,
     <<"i", "c", "e">>,
     <<"g", "o", "l", "f">> >>

\* /a|b|.../.test(lower)
TestAny(patterns, lower) == \E i \in 1..Len(patterns) : Includes(lower, patterns[i])

classifyLabsFirst(n) ==
  CHOOSE type \in
    { IF TestAny(LabsPatterns, lower) THEN "Labs"
      ELSE IF TestAny(UtilityPatterns, lower) THEN "Utility"
      ELSE IF TestAny(ResidentialPatterns, lower) THEN "Residential"
      ELSE IF TestAny(AthleticsPatterns, lower) THEN "Athletics"
      ELSE "Academic" : lower \in {ToLowerCase(n)} } : TRUE

classifyBuildingType(n) ==
  CHOOSE type \in
    { IF TestAny(UtilityPatterns, lower) THEN "Utility"
      ELSE IF TestAny(LabsPatterns, lower) THEN "Labs"
      ELSE IF TestAny(ResidentialPatterns, lower) THEN "Residential"
      ELSE IF TestAny(AthleticsPatterns, lower) THEN "Athletics"
      ELSE "Academic" : lower \in {ToLowerCase(n)} } : TRUE

\* buildings: one Building per entry of siteMap
Buildings(sites, metaMap) ==
  [i \in 1..Len(sites) |->
    LET name == sites[i][1]
        infoItem == sites[i][2]
        metaArea == IF MapHas(metaMap, name) THEN MapGet(metaMap, name).grossarea ELSE None
    IN  [id |-> OrStr(infoItem.code, name),
         name |-> name,
         sqft |-> OrNum(OrNum(infoItem.grossarea, metaArea), RZero),
         type |-> classifyBuildingType(name)]]

\* grossarea > 0 ? Math.round((totalKwh / grossarea) * 100) / 100 : 0
Intensity(totalKwh, grossarea) ==
  IF RLt(RZero, grossarea) THEN RoundTo(RDiv(totalKwh, grossarea), 100) ELSE RZero

\* buildingConsumption of parseAllCsvFiles: one entry per building
BuildingConsumption(bs, statsMap) ==
  [i \in 1..Len(bs) |->
    LET b == bs[i]
        hasStats == MapHas(statsMap, b.name)
        totalKwh == IF hasStats THEN MapGet(statsMap, b.name).totalKwh ELSE RZero
        count == IF hasStats THEN MapGet(statsMap, b.name).count ELSE 1
        grossarea ==
          OrNum(OrNum(IF hasStats THEN MapGet(statsMap, b.name).grossarea ELSE None,
                      b.sqft), RZero)
    IN  [id |-> b.id,
         name |-> b.name,
         sqft |-> grossarea,
         avgHourlyKwh |-> Round(RDiv(totalKwh, R(IF count > 1 THEN count ELSE 1))),
         totalMonthlyKwh |-> Round(totalKwh),
         intensityKwhPerSqft |-> Intensity(totalKwh, grossarea)]]

TwoDigits(n) == PadStart(NumToStr(n), 2)

\* d.toISOString(), to the minute: "YYYY-MM-DDTHH:MM" (":00.000Z" follows)
ToISOString(instant) ==
  IsoDateKey(instant) \o <<"T">>
    \o TwoDigits((instant % MinutesPerDay) \div MinutesPerHour) \o <<":">>
    \o TwoDigits(instant % MinutesPerHour)

\* new Date(isoString).getTime()
ParseISOString(str) ==
  UtcInstant(StrToNum(SubSeq(str, 1, 4)), StrToNum(SubSeq(str, 6, 7)),
             StrToNum(SubSeq(str, 9, 10)), StrToNum(SubSeq(str, 12, 13)),
             StrToNum(SubSeq(str, 15, 16)))

IntLt(a, b) == a < b

\* One HourlyEntry of hourlyData
HourlyEntry(hourTs, entry, startDate, offset) ==
  [timestamp |-> ToISOString(hourTs),
   hour |-> Fields(hourTs, offset).hour,
   day |-> (hourTs - startDate) \div MinutesPerDay,
   totalKwh |-> Round(entry.kwh),
   temperature |-> IF entry.tempCount > 0
                   THEN RoundTo(RDiv(entry.tempSum, R(entry.tempCount)), 10)
                   ELSE RZero]

\* hourlyData: the hours of hourlyMap in increasing order of hourTs
HourlyData(map, startDate, offset) ==
  LET sortedHourTs == SortBy(MapKeys(map), IntLt)
  IN  [i \in 1..Len(sortedHourTs) |->
        HourlyEntry(sortedHourTs[i], MapGet(map, sortedHourTs[i]), startDate, offset)]

\* Mutant of DailyAccumulate: the hour's total replaces the day's sum
DailyAccumulateOverwrite(existing, h) ==
  [kwh |-> h.totalKwh,
   tempSum |-> IF h.temperature # RZero
               THEN RAdd(existing.tempSum, h.temperature) ELSE existing.tempSum,
   tempCount |-> IF h.temperature # RZero
                 THEN existing.tempCount + 1 ELSE existing.tempCount,
   date |-> existing.date]

\* existing.kwh += h.totalKwh, and the temperature sums
DailyAccumulate(existing, h) ==
  [kwh |-> existing.kwh + h.totalKwh,
   tempSum |-> IF h.temperature # RZero
               THEN RAdd(existing.tempSum, h.temperature) ELSE existing.tempSum,
   tempCount |-> IF h.temperature # RZero
                 THEN existing.tempCount + 1 ELSE existing.tempCount,
   date |-> existing.date]

\* dailyMap: the hourly series folded by the date of each entry's timestamp
DailyMap(hourly) ==
  LET F[i \in 0..Len(hourly)] ==
        IF i = 0 THEN <<>>
        ELSE LET d == ParseISOString(hourly[i].timestamp)
                 dateKey == IsoDateKey(d)
                 existing == IF MapHas(F[i - 1], dateKey) THEN MapGet(F[i - 1], dateKey)
                             ELSE [kwh |-> 0, tempSum |-> RZero, tempCount |-> 0, date |-> d]
             IN  MapSet(F[i - 1], dateKey, DailyAccumulate(existing, hourly[i]))
  IN  F[Len(hourly)]

\* The date key of a row of weather_daily_selected.csv that has a date
WeatherDateKey(row) == IsoDateKey(GetTime(toDate(row.date)))

\* One iteration of the supplement loop on dailyMap: a day without a
\* temperature takes the one of the weather row of its date, unless that is 0
DailyMapSupplementedAt(dailyMap, dateKey, temp) ==
  IF MapHas(dailyMap, dateKey) /\ MapGet(dailyMap, dateKey).tempCount = 0 /\ temp # RZero
  THEN MapSet(dailyMap, dateKey,
              [MapGet(dailyMap, dateKey) EXCEPT
                 !.tempSum = RAdd(@, temp), !.tempCount = @ + 1])
  ELSE dailyMap

DailyMapSupplementedBy(dailyMap, row) ==
  IF toDate(row.date) = None THEN dailyMap
  ELSE DailyMapSupplementedAt(dailyMap, WeatherDateKey(row), toNum(row.temperature_2m))

\* dailyMap after the supplement loop over the rows of weather_daily_selected.csv
DailyMapSupplemented(dailyMap, weatherRows) ==
  LET F[i \in 0..Len(weatherRows)] ==
        IF i = 0 THEN dailyMap ELSE DailyMapSupplementedBy(F[i - 1], weatherRows[i])
  IN  F[Len(weatherRows)]

\* Mutant of DailyWeatherSupplementedAt: the weather row replaces whatever
\* the stream summed for its date
DailyWeatherOverwrittenAt(map, dateKey, precip, wind) ==
  IF precip # RZero \/ wind # RZero
  THEN MapSet(map, dateKey, WeatherAggAfter(EmptyWeatherAgg, precip, wind))
  ELSE map

\* One iteration of the supplement loop on primary.dailyWeatherMap: a date
\* that is absent or has neither precipitation nor wind is set to the weather
\* row's measures, where one of them is not 0
DailyWeatherSupplementedAt(map, dateKey, precip, wind) ==
  IF (~MapHas(map, dateKey)
      \/ (MapGet(map, dateKey).precipCount = 0 /\ MapGet(map, dateKey).windCount = 0))
     /\ (precip # RZero \/ wind # RZero)
  THEN MapSet(map, dateKey, WeatherAggAfter(EmptyWeatherAgg, precip, wind))
  ELSE map

DailyWeatherSupplementedBy(map, row) ==
  IF toDate(row.date) = None THEN map
  ELSE DailyWeatherSupplementedAt(map, WeatherDateKey(row), toNum(row.precipitation),
                                  toNum(row.wind_speed_10m))

\* primary.dailyWeatherMap after the supplement loop
DailyWeatherSupplemented(map, weatherRows) ==
  LET F[i \in 0..Len(weatherRows)] ==
        IF i = 0 THEN map ELSE DailyWeatherSupplementedBy(F[i - 1], weatherRows[i])
  IN  F[Len(weatherRows)]

\* The mean of a weather measure of a date, to two decimals, 0 without one
AvgWeather(sum, count) ==
  IF count > 0 THEN RoundTo(RDiv(sum, R(count)), 100) ELSE RZero

DailyEntry(dateKey, val, weatherMap) ==
  [date |-> dateKey,
   totalKwh |-> Round(R(val.kwh)),
   avgTemperature |-> IF val.tempCount > 0
                      THEN RoundTo(RDiv(val.tempSum, R(val.tempCount)), 10)
                      ELSE RZero,
   avgPrecipitation |-> IF MapHas(weatherMap, dateKey)
                        THEN AvgWeather(MapGet(weatherMap, dateKey).precipSum,
                                        MapGet(weatherMap, dateKey).precipCount)
                        ELSE RZero,
   avgWindSpeed |-> IF MapHas(weatherMap, dateKey)
                    THEN AvgWeather(MapGet(weatherMap, dateKey).windSum,
                                    MapGet(weatherMap, dateKey).windCount)
                    ELSE RZero]

\* dailyData: the days of the supplemented dailyMap sorted by date key, each
\* with the weather of its date in the supplemented dailyWeatherMap
DailyData(hourly, weatherRows, weatherMap) ==
  LET sorted == SortBy(DailyMapSupplemented(DailyMap(hourly), weatherRows), EntryKeyLt)
  IN  [i \in 1..Len(sorted) |-> DailyEntry(sorted[i][1], sorted[i][2], weatherMap)]

\* weatherDailyByDate: the measures of each date of weather_daily_selected.csv
WeatherDailyByDate(weatherRows) ==
  LET F[i \in 0..Len(weatherRows)] ==
        IF i = 0 THEN <<>>
        ELSE IF toDate(weatherRows[i].date) = None THEN F[i - 1]
        ELSE MapSet(F[i - 1], WeatherDateKey(weatherRows[i]),
                    [temp |-> toNum(weatherRows[i].temperature_2m),
                     precip |-> toNum(weatherRows[i].precipitation),
                     wind |-> toNum(weatherRows[i].wind_speed_10m)])
  IN  F[Len(weatherRows)]

\* fallbackWeather?.field ?? 0
FallbackOr(byDate, date, field) ==
  IF MapHas(byDate, date) THEN MapGet(byDate, date)[field] ELSE RZero

\* The entry pushed for a building-day
BuildingWeatherEntry(val, byDate) ==
  [buildingName |-> val.building,
   temperature |-> IF val.tempCount > 0
                   THEN RoundTo(RDiv(val.tempSum, R(val.tempCount)), 10)
                   ELSE RoundTo(FallbackOr(byDate, val.date, "temp"), 10),
   precipitation |-> IF val.precipCount > 0
                     THEN RoundTo(RDiv(val.precipSum, R(val.precipCount)), 100)
                     ELSE RoundTo(FallbackOr(byDate, val.date, "precip"), 100),
   windSpeed |-> IF val.windCount > 0
                 THEN RoundTo(RDiv(val.windSum, R(val.windCount)), 100)
                 ELSE RoundTo(FallbackOr(byDate, val.date, "wind"), 100),
   electricity |-> R(Round(val.kwh)),
   date |-> val.date]

\* buildingWeatherData: the building-days that have a temperature of their
\* own or a weather row of their date
BuildingWeatherData(map, byDate) ==
  LET F[i \in 0..Len(map)] ==
        IF i = 0 THEN <<>>
        ELSE IF map[i][2].tempCount = 0 /\ ~MapHas(byDate, map[i][2].date) THEN F[i - 1]
        ELSE Append(F[i - 1], BuildingWeatherEntry(map[i][2], byDate))
  IN  F[Len(map)]

\* new Date(yy, mm - 1).toLocaleDateString("en-US", {month: "short", year: "numeric"})
MonthLabel(monthKey) ==
  LET parts == SplitDash(monthKey)
  IN  [month |-> StrToNum(parts[2]), year |-> StrToNum(parts[1])]

\* The entries pushed for one building, in the order of its sorted months
BuildingMonthlyEntries(buildingname, months) ==
  LET sortedMonths == SortedMonths(months)
  IN  [i \in 1..Len(sortedMonths) |->
        [name |-> buildingname,
         monthKey |-> sortedMonths[i][1],
         monthLabel |-> MonthLabel(sortedMonths[i][1]),
         kwh |-> Round(sortedMonths[i][2])]]

\* buildingMonthlyData
BuildingMonthlyData(monthMap) ==
  LET F[i \in 0..Len(monthMap)] ==
        IF i = 0 THEN <<>>
        ELSE F[i - 1] \o BuildingMonthlyEntries(monthMap[i][1], monthMap[i][2])
  IN  F[Len(monthMap)]

\* changePct: the rounded percentage of the previous month's total, 0 where
\* that total is not positive
ChangePct(prevKwh, currKwh) ==
  IF RLt(RZero, prevKwh)
  THEN Rat(Round(RMul(RDiv(RSub(currKwh, prevKwh), prevKwh), R(10000))), 100)
  ELSE RZero

\* The records pushed for one building: one per entry of its sorted months
\* after the first, against the entry before it
BuildingMoMEntries(buildingname, months) ==
  LET sortedMonths == SortedMonths(months)
  IN  [k \in 1..(Len(sortedMonths) - 1) |->
        [name |-> buildingname,
         prevMonthKwh |-> Round(sortedMonths[k][2]),
         currMonthKwh |-> Round(sortedMonths[k + 1][2]),
         changeKwh |-> Round(RSub(sortedMonths[k + 1][2], sortedMonths[k][2])),
         changePct |-> ChangePct(sortedMonths[k][2], sortedMonths[k + 1][2]),
         prevMonthLabel |-> MonthLabel(sortedMonths[k][1]),
         currMonthLabel |-> MonthLabel(sortedMonths[k + 1][1])]]

\* buildingMoMChanges
BuildingMoMChanges(monthMap) ==
  LET F[i \in 0..Len(monthMap)] ==
        IF i = 0 THEN <<>>
        ELSE F[i - 1] \o BuildingMoMEntries(monthMap[i][1], monthMap[i][2])
  IN  F[Len(monthMap)]

\* ------------------------------------------------------------------------
\* The gold path (buildParsedDataFromGold): buildings and their consumption.
\* A GoldRow holds utility, sitename and simscode as strings (None where
\* absent) and grossarea, kwh_per_sqft and readingvalue as numbers (None where
\* null or NaN).
\* ------------------------------------------------------------------------

ElecTokenLower == <<"e", "l", "e", "c">>

\* !r.utility || r.utility.toLowerCase().includes("elec") || r.utility === ""
IsGoldElecRow(r) ==
  r.utility = None \/ r.utility = <<>> \/ Includes(ToLowerCase(r.utility), ElecTokenLower)

GoldElecRows(rows) == Filter(rows, IsGoldElecRow)

\* siteMap of the gold path: the first row of a site sets its area and code
GoldSiteMap(elecRows) ==
  LET F[i \in 0..Len(elecRows)] ==
        IF i = 0 THEN <<>>
        ELSE LET r == elecRows[i]
             IN  IF r.sitename # None /\ r.sitename # <<>> /\ ~MapHas(F[i - 1], r.sitename)
                 THEN MapSet(F[i - 1], r.sitename,
                        [sqft |-> OrNum(r.grossarea, RZero),
                         code |-> IF r.simscode = None THEN <<>> ELSE r.simscode])
                 ELSE F[i - 1]
  IN  F[Len(elecRows)]

GoldBuildings(sites) ==
  [i \in 1..Len(sites) |->
    [id |-> OrStr(sites[i][2].code, sites[i][1]),
     name |-> sites[i][1],
     sqft |-> sites[i][2].sqft]]

\* buildingStatsMap of the gold path: the intensity is the row's kwh_per_sqft
GoldBuildingStatsMap(elecRows) ==
  LET F[i \in 0..Len(elecRows)] ==
        IF i = 0 THEN <<>>
        ELSE LET r == elecRows[i]
                 existing ==
                   IF MapHas(F[i - 1], r.sitename) THEN MapGet(F[i - 1], r.sitename)
                   ELSE [totalKwh |-> RZero, count |-> 0,
                         intensity |-> OrNum(r.kwh_per_sqft, RZero)]
             IN  IF r.sitename = None \/ r.sitename = <<>> THEN F[i - 1]
                 ELSE MapSet(F[i - 1], r.sitename,
                        [totalKwh |-> RAdd(existing.totalKwh, OrNum(r.readingvalue, RZero)),
                         count |-> existing.count + 1,
                         intensity |-> IF r.kwh_per_sqft # None
                                       THEN r.kwh_per_sqft ELSE existing.intensity])
  IN  F[Len(elecRows)]

\* stats?.intensity ?? (b.sqft > 0 ? Math.round((totalKwh / b.sqft) * 100) / 100 : 0)
GoldIntensity(hasStats, stats, totalKwh, sqft) ==
  IF hasStats THEN stats.intensity ELSE Intensity(totalKwh, sqft)

\* buildingConsumption of buildParsedDataFromGold
GoldBuildingConsumption(bs, statsMap) ==
  [i \in 1..Len(bs) |->
    LET b == bs[i]
        hasStats == MapHas(statsMap, b.name)
        stats == IF hasStats THEN MapGet(statsMap, b.name) ELSE None
        totalKwh == IF hasStats THEN stats.totalKwh ELSE RZero
        count == IF hasStats THEN stats.count ELSE 1
    IN  [id |-> b.id,
         name |-> b.name,
         sqft |-> b.sqft,
         avgHourlyKwh |-> Round(RDiv(totalKwh, R(IF count > 1 THEN count ELSE 1))),
         totalMonthlyKwh |-> Round(totalKwh),
         intensityKwhPerSqft |->
           RoundTo(GoldIntensity(hasStats, stats, totalKwh, b.sqft), 100)]]

\* ------------------------------------------------------------------------
\* Weather model (buildWeatherModel): a ridge-stabilised linear fit of the
\* daily electricity total on temperature, precipitation and wind speed.
\* An entry is a BuildingWeatherEntry: buildingName and date are character
\* sequences, the four measures are numbers.
\* ------------------------------------------------------------------------

\* The alternatives of /substation|plant|...|steam/i
UtilityLikeTokens ==
  { <<"s", "u", "b", "s", "t", "a", "t", "i", "o", "n">>,
    <<"p", "l", "a", "n", "t">>,
    <<"u", "t", "i", "l", "i", "t", "y">>,
    <<"c", "e", "n", "t", "r", "a", "l">>,
    <<"c", "h", "i", "l", "l", "e", "r">>,
    <<"b", "o", "i", "l", "e", "r">>,
    <<"p", "o", "w", "e", "r">>,
    <<"s", "e", "r", "v", "i", "c", "e">>,
    <<"g", "a", "r", "a", "g", "e">>,
    <<"p", "a", "r", "k", "i", "n", "g">>,
    <<"t", "u", "n", "n", "e", "l">>,
    <<"s", "t", "e", "a", "m">> }

isUtilityLikeBuildingName(name) ==
  \E token \in UtilityLikeTokens : Includes(ToLowerCase(name), token)

WEATHER_MODEL_BUILDING_TOKENS ==
  << <<"t", "h", "o", "m", "p", "s", "o", "n", " ", "l", "i", "b", "r", "a", "r", "y">>,
     <<"r", "e", "c", "r", "e", "a", "t", "i", "o", "n", " ", "a", "n", "d", " ", "p", "h", "y", "s", "i", "c", "a", "l", " ", "a", "c", "t", "i", "v", "i", "t", "y", " ", "c", "e", "n", "t", "e", "r">>,
     <<"r", "p", "a", "c">>,
     <<"k", "n", "o", "w", "l", "t", "o", "n", " ", "h", "a", "l", "l">>,
     <<"h", "i", "t", "c", "h", "c", "o", "c", "k", " ", "h", "a", "l", "l">>,
     <<"o", "h", "i", "o", " ", "u", "n", "i", "o", "n">> >>

isPreferredWeatherModelBuilding(name) ==
  \E i \in 1..Len(WEATHER_MODEL_BUILDING_TOKENS) :
    Includes(ToLowerCase(name), WEATHER_MODEL_BUILDING_TOKENS[i])

\* Number.isFinite of a measure: NaN and the infinities read as None
IsFinite(x) == x # None

IsUsableEntry(e) ==
  /\ IsFinite(e.electricity)
  /\ RLt(RZero, e.electricity)
  /\ IsFinite(e.temperature)
  /\ IsFinite(e.precipitation)
  /\ IsFinite(e.windSpeed)
  /\ ~isUtilityLikeBuildingName(e.buildingName)

IsPreferredEntry(e) == isPreferredWeatherModelBuilding(e.buildingName)

\* The fewest entries, and dates, a fit is attempted on
MinModelRows == 10

\* Mutant of TooFew: a fit is attempted on any rows
TooFewNever(rows) == FALSE

\* Mutant of TooFew: a fit is attempted unless there is no row
TooFewOnlyEmpty(rows) == rows = <<>>

\* usableEntries.length < 10, rows.length < 10
TooFew(rows) == Len(rows) < MinModelRows

\* The fewest entries of preferred buildings that replace the whole panel
PreferredMinEntries == 50

\* preferredEntries.length >= 50 ? preferredEntries : baseUsableEntries
PreferredOr(preferredEntries, baseUsableEntries) ==
  IF Len(preferredEntries) >= PreferredMinEntries
  THEN preferredEntries ELSE baseUsableEntries

UsableEntries(entries) ==
  CHOOSE usableEntries \in
    { PreferredOr(Filter(baseUsableEntries, IsPreferredEntry), baseUsableEntries) :
      baseUsableEntries \in {Filter(entries, IsUsableEntry)} } : TRUE

EmptyDayAgg ==
  [kwh |-> RZero, temp |-> RZero, precip |-> RZero, wind |-> RZero, count |-> 0]

\* One iteration of `for (const e of usableEntries)`
DailyAggAfter(dailyAgg, e) ==
  LET existing == IF MapHas(dailyAgg, e.date) THEN MapGet(dailyAgg, e.date)
                  ELSE EmptyDayAgg
  IN  MapSet(dailyAgg, e.date,
             [kwh |-> RAdd(existing.kwh, e.electricity),
              temp |-> RAdd(existing.temp, e.temperature),
              precip |-> RAdd(existing.precip, e.precipitation),
              wind |-> RAdd(existing.wind, e.windSpeed),
              count |-> existing.count + 1])

\* dailyAgg: Map<date, {kwh, temp, precip, wind, count}>
DailyAgg(entries) ==
  LET n == Len(entries)
      \* the iterations lo..hi of the loop on the map acc
      Block(acc, lo, hi) ==
        LET G[j \in (lo - 1)..hi] ==
              IF j = lo - 1 THEN acc ELSE DailyAggAfter(G[j - 1], entries[j])
        IN  G[hi]
      \* the map after the first c blocks of eight iterations
      F[c \in 0..((n + 7) \div 8)] ==
        IF c = 0 THEN <<>>
        ELSE CHOOSE after \in
               { Block(acc, 8 * (c - 1) + 1, IF 8 * c < n THEN 8 * c ELSE n) :
                 acc \in {F[c - 1]} } : TRUE
  IN  F[(n + 7) \div 8]

\* The row of a date: the means of its weather, the total of its electricity
DailyRow(d) ==
  [temp |-> RDiv(d.temp, R(d.count)),
   precip |-> RDiv(d.precip, R(d.count)),
   wind |-> RDiv(d.wind, R(d.count)),
   kwh |-> d.kwh,
   count |-> d.count]

\* rows: Array.from(dailyAgg.values()).filter((d) => d.count > 0).map(...)
DailyRows(dailyAgg) ==
  LET F[i \in 0..Len(dailyAgg)] ==
        IF i = 0 THEN <<>>
        ELSE IF dailyAgg[i][2].count > 0
             THEN Append(F[i - 1], DailyRow(dailyAgg[i][2])) ELSE F[i - 1]
  IN  F[Len(dailyAgg)]

\* sorted[lo] * (1 - t) + sorted[hi] * t around the fractional index idx
QuantileAt(sorted, idx) ==
  LET lo == Floor(idx)
      hi == Ceil(idx)
      t == RSub(idx, R(lo))
  IN  IF lo = hi THEN sorted[lo + 1]
      ELSE RAdd(RMul(sorted[lo + 1], RSub(ROne, t)), RMul(sorted[hi + 1], t))

quantile(values, q) ==
  IF Len(values) = 0 THEN RZero
  ELSE CHOOSE v \in
         { QuantileAt(sorted, idx) :
           sorted \in {SortNum(values)},
           idx \in {RMul(R(Len(values) - 1), clamp(q, RZero, ROne))} } : TRUE

\* `if (filtered.length >= 10) { rows.length = 0; rows.push(...filtered); }`
KeepIfEnough(filtered, rows) ==
  IF Len(filtered) >= MinModelRows THEN filtered ELSE rows

Counts(rows) == [i \in 1..Len(rows) |-> R(rows[i].count)]

Kwhs(rows) == [i \in 1..Len(rows) |-> rows[i].kwh]

\* The share of the median coverage a date needs (0.6)
CoverageShare == Rat(3, 5)

\* Mutant of MinCoverage: the threshold is rounded up, not down
MinCoverageCeil(rows) ==
  LET ceiled == Ceil(RMul(median(Counts(rows)), CoverageShare))
  IN  IF ceiled > 1 THEN ceiled ELSE 1

\* Math.max(1, Math.floor(medianCoverage * 0.6))
MinCoverage(rows) ==
  LET floored == Floor(RMul(median(Counts(rows)), CoverageShare))
  IN  IF floored > 1 THEN floored ELSE 1

\* rows.filter((r) => r.count >= minCoverage)
CoverageKept(rows) ==
  CHOOSE kept \in
    { Filter(rows, LAMBDA r : r.count >= minCoverage) :
      minCoverage \in {MinCoverage(rows)} } : TRUE

\* Remove low-coverage dates
CoverageFiltered(rows) ==
  CHOOSE kept \in { KeepIfEnough(filtered, rows) : filtered \in {CoverageKept(rows)} } : TRUE

\* The least daily total that always counts as a complete day
MinDailyKwhFloor == 10000

\* Math.max(10_000, lowTail * 0.5), lowTail the 5% quantile of the positive totals
MinDailyKwh(rows) ==
  RMax(R(MinDailyKwhFloor),
       RMul(quantile(Filter(Kwhs(rows), LAMBDA v : RLt(RZero, v)), Rat(1, 20)),
            Rat(1, 2)))

\* rows.filter((r) => r.kwh >= minDailyKwh)
CompletenessKept(rows) ==
  CHOOSE kept \in
    { Filter(rows, LAMBDA r : RLe(minDailyKwh, r.kwh)) :
      minDailyKwh \in {MinDailyKwh(rows)} } : TRUE

\* Remove very low daily totals
CompletenessFiltered(rows) ==
  CHOOSE kept \in { KeepIfEnough(filtered, rows) : filtered \in {CompletenessKept(rows)} } : TRUE

\* rows.filter((r) => r.kwh >= lowKwh && r.kwh <= highKwh)
OutlierKept(rows) ==
  CHOOSE kept \in
    { Filter(rows, LAMBDA r : RLe(lowKwh, r.kwh) /\ RLe(r.kwh, highKwh)) :
      lowKwh \in {quantile(Kwhs(rows), Rat(1, 100))},
      highKwh \in {quantile(Kwhs(rows), Rat(99, 100))} } : TRUE

\* Remove the daily totals outside the 1% and 99% quantiles
OutlierFiltered(rows) ==
  CHOOSE kept \in { KeepIfEnough(filtered, rows) : filtered \in {OutlierKept(rows)} } : TRUE

\* Array.from({ length: n }, (_, i) => F(i + 1))
Tabulate(n, F(_)) == [i \in 1..n |-> F(i)]

Temps(rows) == [i \in 1..Len(rows) |-> rows[i].temp]

Precips(rows) == [i \in 1..Len(rows) |-> rows[i].precip]

Winds(rows) == [i \in 1..Len(rows) |-> rows[i].wind]

\* values.reduce((s, v) => s + v, 0) / values.length
Mean(values) == RDiv(RSum(values), R(Len(values)))

\* values.reduce((s, v) => s + (v - mean) ** 2, 0) / values.length
Variance(values, mean) ==
  RDiv(RSum([i \in 1..Len(values) |-> RSq(RSub(values[i], mean))]), R(Len(values)))

RECURSIVE ISqrtIn(_, _, _)
ISqrtIn(n, lo, hi) ==
  IF lo = hi THEN lo
  ELSE LET mid == (lo + hi + 1) \div 2
       IN  IF mid * mid <= n THEN ISqrtIn(n, mid, hi) ELSE ISqrtIn(n, lo, mid - 1)

\* The largest t with t * t <= n, for n >= 0
ISqrt(n) == ISqrtIn(n, 0, IF n < 46340 THEN n ELSE 46340)

\* The numerator of a as an improper fraction over a[3]
Numerator(a) == a[1] * a[3] + a[2]

IsExactRoot(t, n) == t * t = n

\* x is the square of a rational
IsSquareValue(x) ==
  /\ Numerator(x) >= 0
  /\ IsExactRoot(ISqrt(Numerator(x)), Numerator(x))
  /\ IsExactRoot(ISqrt(x[3]), x[3])

IsSquare(a) == \E x \in {a} : IsSquareValue(x)

\* Math.sqrt, exact on the squares of rationals (the only arguments it is
\* applied to: see ExactRows)
Sqrt(a) == CHOOSE root \in { Rat(ISqrt(Numerator(x)), ISqrt(x[3])) : x \in {a} } : TRUE

\* x || 1
OrOne(x) == CHOOSE r \in { IF v = RZero THEN ROne ELSE v : v \in {x} } : TRUE

\* The mean and the population standard deviation (`|| 1`) of a feature
FeatureStats(values) ==
  CHOOSE stats \in
    { [mean |-> mean, std |-> OrOne(Sqrt(Variance(values, mean)))] :
      mean \in {Mean(values)} } : TRUE

\* meanTemp, meanPrecip, meanWind, meanKwh, stdTemp, stdPrecip, stdWind
FitStats(rows) ==
  [temp |-> FeatureStats(Temps(rows)),
   precip |-> FeatureStats(Precips(rows)),
   wind |-> FeatureStats(Winds(rows)),
   meanKwh |-> Mean(Kwhs(rows))]

\* The variances the fit takes roots of are squares of rationals
ExactRows(rows) ==
  /\ IsSquare(Variance(Temps(rows), Mean(Temps(rows))))
  /\ IsSquare(Variance(Precips(rows), Mean(Precips(rows))))
  /\ IsSquare(Variance(Winds(rows), Mean(Winds(rows))))

\* X: the rows [1, zTemp, zPrecip, zWind]
DesignMatrix(rows, stats) ==
  Tabulate(Len(rows), LAMBDA i :
    <<ROne,
      RDiv(RSub(rows[i].temp, stats.temp.mean), stats.temp.std),
      RDiv(RSub(rows[i].precip, stats.precip.mean), stats.precip.std),
      RDiv(RSub(rows[i].wind, stats.wind.mean), stats.wind.std)>>)

transpose(m) ==
  Tabulate(Len(m[1]), LAMBDA j : Tabulate(Len(m), LAMBDA i : m[i][j]))

\* The inner product of row i of a and column j of b
Dot(a, b, i, j) == RSum(Tabulate(Len(b), LAMBDA k : RMul(a[i][k], b[k][j])))

matMul(a, b) ==
  Tabulate(Len(a), LAMBDA i : Tabulate(Len(b[1]), LAMBDA j : Dot(a, b, i, j)))

\* row.reduce((s, val, j) => s + val * v[j], 0)
RowDot(row, v) == RSum(Tabulate(Len(v), LAMBDA j : RMul(row[j], v[j])))

matVecMul(m, v) == Tabulate(Len(m), LAMBDA i : RowDot(m[i], v))

ridgeAlpha == ROne

\* Mutant of Ridge: the normal equations are left unregularised
RidgeNone(XtX) == XtX

\* for (let i = 1; i < XtX.length; i++) XtX[i][i] += ridgeAlpha
Ridge(XtX) ==
  Tabulate(Len(XtX), LAMBDA i :
    Tabulate(Len(XtX[i]), LAMBDA j :
      IF i = j /\ i > 1 THEN RAdd(XtX[i][j], ridgeAlpha) ELSE XtX[i][j]))

\* aug: each row of m followed by the row of the identity
Augmented(m) ==
  Tabulate(Len(m), LAMBDA i :
    m[i] \o Tabulate(Len(m), LAMBDA j : IF i = j THEN ROne ELSE RZero))

\* The scan for the row of the largest |aug[row][col]| from row on; the
\* first of equals wins
RECURSIVE PivotRow(_, _, _, _)
PivotRow(aug, col, row, maxRow) ==
  IF row > Len(aug) THEN maxRow
  ELSE PivotRow(aug, col, row + 1,
                IF RLt(RAbs(aug[maxRow][col]), RAbs(aug[row][col])) THEN row ELSE maxRow)

\* [aug[i], aug[j]] = [aug[j], aug[i]]
SwapRows(aug, i, j) ==
  Tabulate(Len(aug), LAMBDA k : IF k = i THEN aug[j] ELSE IF k = j THEN aug[i] ELSE aug[k])

\* 1e-10 is 1 / (PivotScale * PivotScale)
PivotScale == 100000

\* Math.abs(x) < 1e-10
BelowPivotThreshold(x) == RLt(RMul(RAbs(x), R(PivotScale)), Rat(1, PivotScale))

\* for (let j = 0; j < 2 * n; j++) aug[col][j] /= pivot
PivotRowScaled(aug, col) ==
  Tabulate(Len(aug[col]), LAMBDA j : RDiv(aug[col][j], aug[col][col]))

\* aug[row][j] -= factor * aug[col][j] for every other row
EliminateWith(aug, col, pivotRow) ==
  Tabulate(Len(aug), LAMBDA row :
    IF row = col THEN pivotRow
    ELSE Tabulate(Len(aug[row]), LAMBDA j :
           RSub(aug[row][j], RMul(aug[row][col], pivotRow[j]))))

Eliminate(aug, col) ==
  CHOOSE next \in
    { EliminateWith(aug, col, pivotRow) : pivotRow \in {PivotRowScaled(aug, col)} } : TRUE

\* aug.map((row) => row.slice(n))
RightHalf(aug) ==
  Tabulate(Len(aug), LAMBDA i : SubSeq(aug[i], Len(aug) + 1, 2 * Len(aug)))

\* The loop `for (let col = 0; col < n; col++)` from col on: Some(inverse),
\* or None when a pivot is below the threshold
RECURSIVE GaussJordan(_, _)

\* The body of the loop after the swap
GaussJordanSwapped(swapped, col) ==
  IF BelowPivotThreshold(swapped[col][col]) THEN None
  ELSE CHOOSE r \in { GaussJordan(next, col + 1) : next \in {Eliminate(swapped, col)} } : TRUE

GaussJordan(aug, col) ==
  IF col > Len(aug) THEN Some(RightHalf(aug))
  ELSE CHOOSE r \in
         { GaussJordanSwapped(swapped, col) :
           swapped \in {SwapRows(aug, col, PivotRow(aug, col, col + 1, col))} } : TRUE

invert4x4(m) == CHOOSE r \in { GaussJordan(aug, 1) : aug \in {Augmented(m)} } : TRUE

\* bTemp, bPrecip and bWind from the standardised solution betaStd
Slopes(betaStd, stats) ==
  [temperature |-> RDiv(betaStd[2], stats.temp.std),
   precipitation |-> RDiv(betaStd[3], stats.precip.std),
   windSpeed |-> RDiv(betaStd[4], stats.wind.std)]

\* stdIntercept - bTemp * meanTemp - bPrecip * meanPrecip - bWind * meanWind
Intercept(stdIntercept, slopes, stats) ==
  RSub(RSub(RSub(stdIntercept, RMul(slopes.temperature, stats.temp.mean)),
            RMul(slopes.precipitation, stats.precip.mean)),
       RMul(slopes.windSpeed, stats.wind.mean))

Coefficients(betaStd, stats) ==
  CHOOSE coefficients \in
    { [temperature |-> slopes.temperature,
       precipitation |-> slopes.precipitation,
       windSpeed |-> slopes.windSpeed,
       intercept |-> Intercept(betaStd[1], slopes, stats)] :
      slopes \in {Slopes(betaStd, stats)} } : TRUE

\* Math.max(...values) and Math.min(...values) of a non-empty list
MaxOf(values) ==
  LET F[i \in 1..Len(values)] == IF i = 1 THEN values[1] ELSE RMax(F[i - 1], values[i])
  IN  F[Len(values)]

MinOf(values) ==
  LET F[i \in 1..Len(values)] == IF i = 1 THEN values[1] ELSE RMin(F[i - 1], values[i])
  IN  F[Len(values)]

\* Math.max(1, quantile(kwh, 0.99) * 1.25, maxObservedKwh * 1.1)
PredictionCap(rows) ==
  RMax(RMax(ROne, RMul(quantile(Kwhs(rows), Rat(99, 100)), Rat(5, 4))),
       RMul(MaxOf(Kwhs(rows)), Rat(11, 10)))

predictKwhUnclamped(coefficients, predictionCap, temp, precip, wind) ==
  RAdd(RAdd(RAdd(coefficients.intercept, RMul(coefficients.temperature, temp)),
            RMul(coefficients.precipitation, precip)),
       RMul(coefficients.windSpeed, wind))

predictKwh(coefficients, predictionCap, temp, precip, wind) ==
  clamp(RAdd(RAdd(RAdd(coefficients.intercept, RMul(coefficients.temperature, temp)),
                  RMul(coefficients.precipitation, precip)),
             RMul(coefficients.windSpeed, wind)),
        RZero, predictionCap)

\* Math.round of a point estimate
Predicted(x) == Round(x)

Predictions(rows, coefficients, predictionCap) ==
  Tabulate(Len(rows), LAMBDA i :
    [actual |-> rows[i].kwh,
     predicted |-> Predicted(predictKwh(coefficients, predictionCap,
                                        rows[i].temp, rows[i].precip, rows[i].wind)),
     temperature |-> rows[i].temp,
     precipitation |-> rows[i].precip,
     windSpeed |-> rows[i].wind])

\* predictions.reduce((s, p) => s + (p.actual - p.predicted) ** 2, 0)
SsRes(predictions) ==
  RSum(Tabulate(Len(predictions), LAMBDA i :
    RSq(RSub(predictions[i].actual, R(predictions[i].predicted)))))

\* rows.reduce((s, r) => s + (r.kwh - meanKwh) ** 2, 0)
SsTot(rows, meanKwh) ==
  RSum(Tabulate(Len(rows), LAMBDA i : RSq(RSub(rows[i].kwh, meanKwh))))

\* ssTot > 0 ? Math.round((1 - ssRes / ssTot) * 10000) / 10000 : 0
R2(ssRes, ssTot) ==
  IF RLt(RZero, ssTot) THEN RoundTo(RSub(ROne, RDiv(ssRes, ssTot)), 10000) ELSE RZero

\* Math.round((c.absCoeff / totalAbsCoeff) * 10000) / 100
Importance(absCoeff, totalAbsCoeff) ==
  Rat(Round(RMul(RDiv(absCoeff, totalAbsCoeff), R(10000))), 100)

\* Math.abs(bTemp * stdTemp), Math.abs(bPrecip * stdPrecip), Math.abs(bWind * stdWind)
AbsCoeffs(coefficients, stats) ==
  <<[feature |-> "Temperature",
     absCoeff |-> RAbs(RMul(coefficients.temperature, stats.temp.std))],
    [feature |-> "Precipitation",
     absCoeff |-> RAbs(RMul(coefficients.precipitation, stats.precip.std))],
    [feature |-> "Wind Speed",
     absCoeff |-> RAbs(RMul(coefficients.windSpeed, stats.wind.std))]>>

\* stdCoeffs.reduce((s, c) => s + c.absCoeff, 0) || 1
TotalAbsCoeff(absCoeffs) ==
  OrOne(RSum(Tabulate(Len(absCoeffs), LAMBDA i : absCoeffs[i].absCoeff)))

\* (a, b) => b.importance - a.importance
ImportanceDesc(a, b) == RLt(b.importance, a.importance)

\* for (const c of stdCoeffs) c.importance = ...
WithImportance(absCoeffs, totalAbsCoeff) ==
  Tabulate(Len(absCoeffs), LAMBDA i :
    [feature |-> absCoeffs[i].feature,
     importance |-> Importance(absCoeffs[i].absCoeff, totalAbsCoeff),
     absCoeff |-> absCoeffs[i].absCoeff])

\* featureImportance: the importances filled in, then sorted largest first
FeatureImportance(absCoeffs) ==
  CHOOSE sorted \in
    { SortBy(WithImportance(absCoeffs, totalAbsCoeff), ImportanceDesc) :
      totalAbsCoeff \in {TotalAbsCoeff(absCoeffs)} } : TRUE

\* minTemp, maxTemp, minWind and maxWind: the floors and ceilings of the
\* observed ranges
Ranges(rows) ==
  [minTemp |-> Floor(MinOf(Temps(rows))),
   maxTemp |-> Ceil(MaxOf(Temps(rows))),
   minWind |-> Floor(MinOf(Winds(rows))),
   maxWind |-> Ceil(MaxOf(Winds(rows)))]

\* for (let t = minTemp; t <= maxTemp; t += 2)
MarginalEffect(ranges, stats, coefficients, predictionCap) ==
  Tabulate((ranges.maxTemp - ranges.minTemp) \div 2 + 1, LAMBDA k :
    [temperature |-> ranges.minTemp + 2 * (k - 1),
     predicted |-> Predicted(predictKwh(coefficients, predictionCap,
                                        R(ranges.minTemp + 2 * (k - 1)),
                                        stats.precip.mean, stats.wind.mean))])

ScenarioTemperatures == <<70, 90>>

\* "Moderate (~70 degrees F)" and "Extreme (~90 degrees F)"
ScenarioLabels == <<"Moderate (~70F)", "Extreme (~90F)">>

ScenarioComparison(stats, coefficients, predictionCap) ==
  Tabulate(Len(ScenarioTemperatures), LAMBDA i :
    [label |-> ScenarioLabels[i],
     temperature |-> ScenarioTemperatures[i],
     predicted |-> Predicted(predictKwh(coefficients, predictionCap,
                                        R(ScenarioTemperatures[i]),
                                        stats.precip.mean, stats.wind.mean))])

\* The lists of a list, concatenated
Flatten(lists) ==
  LET F[i \in 0..Len(lists)] == IF i = 0 THEN <<>> ELSE F[i - 1] \o lists[i]
  IN  F[Len(lists)]

\* Math.max(least, Math.round(span / parts))
GridStep(least, span, parts) ==
  CHOOSE step \in
    { IF rounded > least THEN rounded ELSE least : rounded \in {Round(Rat(span, parts))} } :
    TRUE

\* The cells of the grid with steps tempStep and windStep
HeatmapCells(ranges, tempStep, windStep, stats, coefficients, predictionCap) ==
  Tabulate((ranges.maxTemp - ranges.minTemp) \div tempStep + 1, LAMBDA k :
    Tabulate((ranges.maxWind - ranges.minWind) \div windStep + 1, LAMBDA l :
      [temperature |-> ranges.minTemp + tempStep * (k - 1),
       windSpeed |-> ranges.minWind + windStep * (l - 1),
       predicted |-> Predicted(predictKwh(coefficients, predictionCap,
                                          R(ranges.minTemp + tempStep * (k - 1)),
                                          stats.precip.mean,
                                          R(ranges.minWind + windStep * (l - 1))))]))

\* The temperature x wind speed grid
HeatmapData(ranges, stats, coefficients, predictionCap) ==
  CHOOSE cells \in
    { Flatten(HeatmapCells(ranges, tempStep, windStep, stats, coefficients, predictionCap)) :
      tempStep \in {GridStep(2, ranges.maxTemp - ranges.minTemp, 10)},
      windStep \in {GridStep(1, ranges.maxWind - ranges.minWind, 8)} } : TRUE

\* buildWeatherModel returns null at a stage: its locals and its result
ReturnNull(stage) ==
  /\ modelLocals' = [fitted |-> FALSE, stage |-> stage]
  /\ weatherModel' = None

\* buildWeatherModel returns the model fitted on rows
ReturnModel(rows, stats, coefficients, predictionCap, predictions, ssRes, ssTot,
            absCoeffs, ranges) ==
  /\ modelLocals' = [fitted |-> TRUE, stage |-> "return", rows |-> rows, stats |-> stats,
                     predictionCap |-> predictionCap, ssRes |-> ssRes, ssTot |-> ssTot,
                     absCoeffs |-> absCoeffs]
  /\ weatherModel' =
       Some([coefficients |-> coefficients,
             featureImportance |-> FeatureImportance(absCoeffs),
             predictions |-> predictions,
             r2 |-> R2(ssRes, ssTot),
             marginalEffect |-> MarginalEffect(ranges, stats, coefficients, predictionCap),
             scenarioComparison |-> ScenarioComparison(stats, coefficients, predictionCap),
             heatmapData |-> HeatmapData(ranges, stats, coefficients, predictionCap)])

\* The fit on the filtered rows, from the standardisation on.  The model's
\* square roots are exact: the fit is taken on rows whose variances are
\* squares of rationals.
FitModel(rows) ==
  /\ ExactRows(rows)
  /\ \E stats \in {FitStats(rows)} :
     \E X \in {DesignMatrix(rows, stats)} :
     \E Xt \in {transpose(X)} :
     \E XtXPlain \in {matMul(Xt, X)} :
     \E XtX \in {Ridge(XtXPlain)} :
     \E XtXInv \in {invert4x4(XtX)} :
       IF XtXInv = None THEN ReturnNull("invert")
       ELSE
         \E Xty \in {matVecMul(Xt, Kwhs(rows))} :
         \E betaStd \in {matVecMul(XtXInv[1], Xty)} :
         \E coefficients \in {Coefficients(betaStd, stats)} :
         \E predictionCap \in {PredictionCap(rows)} :
         \E predictions \in {Predictions(rows, coefficients, predictionCap)} :
           ReturnModel(rows, stats, coefficients, predictionCap, predictions,
                       SsRes(predictions), SsTot(rows, stats.meanKwh),
                       AbsCoeffs(coefficients, stats), Ranges(rows))

\* buildWeatherModel(entries), as the step that sets what it returns
BuildWeatherModel(entries) ==
  \E usableEntries \in {UsableEntries(entries)} :
    IF TooFew(usableEntries) THEN ReturnNull("entries")
    ELSE
      \E rows \in {DailyRows(DailyAgg(usableEntries))} :
        IF TooFew(rows) THEN ReturnNull("dates")
        ELSE
          \E covered \in {CoverageFiltered(rows)} :
          \E complete \in {CompletenessFiltered(covered)} :
          \E filtered \in {OutlierFiltered(complete)} :
            FitModel(filtered)

\* ------------------------------------------------------------------------
\* Weather correlation KPI (parseAllCsvFiles, summaryMetrics.weatherCorrelation)
\* ------------------------------------------------------------------------

\* (d) => d.avgTemperature !== 0
HasTemperature(d) == d.avgTemperature # RZero

\* tempVsElectricity: the days with a temperature, as points
TempVsElectricity(daily) ==
  LET F[i \in 0..Len(daily)] ==
        IF i = 0 THEN <<>>
        ELSE IF HasTemperature(daily[i])
             THEN Append(F[i - 1], [temperature |-> daily[i].avgTemperature,
                                    electricity |-> R(daily[i].totalKwh)])
             ELSE F[i - 1]
  IN  F[Len(daily)]

\* Math.round of -y / 2 and of y / 2, where y is the root of q and t the
\* largest integer with t * t <= q
RoundHalfRoot(negative, q, t) ==
  IF negative THEN -((IF R(t * t) = q THEN t ELSE t + 1) \div 2) ELSE (t + 1) \div 2

RoundHalfRootOf(negative, q) ==
  CHOOSE k \in { RoundHalfRoot(negative, q, t) : t \in {ISqrt(Floor(q))} } : TRUE

\* Math.round((num / Math.sqrt(square)) * scale) for square > 0: the integer k
\* with k - 1/2 <= scale * num / sqrt(square) < k + 1/2, from the root of
\* q = (2 * scale * num) ^ 2 / square
RoundRatioToRoot(num, square, scale) ==
  CHOOSE k \in
    { RoundHalfRootOf(RLt(num, RZero), q) :
      q \in {RDiv(RMul(R(4 * scale * scale), RSq(num)), square)} } : TRUE

\* Mutant of CorrelationOf: the covariance is divided by the squared
\* deviations of the electricity alone (a slope) instead of denom
CorrelationAsSlope(num, denT, denE) ==
  IF RLt(RZero, RMul(denT, denE)) THEN RoundTo(RDiv(num, denE), 100) ELSE RZero

\* denom = Math.sqrt(denT * denE);
\* denom > 0 ? Math.round((num / denom) * 100) / 100 : 0
CorrelationOf(num, denT, denE) ==
  IF RLt(RZero, RMul(denT, denE))
  THEN Rat(RoundRatioToRoot(num, RMul(denT, denE), 100), 100)
  ELSE RZero

Temperatures(points) == [i \in 1..Len(points) |-> points[i].temperature]

Electricities(points) == [i \in 1..Len(points) |-> points[i].electricity]

\* The sums num, denT and denE of the loop over the points
CorrelationSumsAbout(points, meanT, meanE) ==
  [num |-> RSum(Tabulate(Len(points), LAMBDA i :
             RMul(RSub(points[i].temperature, meanT),
                  RSub(points[i].electricity, meanE)))),
   denT |-> RSum(Tabulate(Len(points), LAMBDA i :
              RSq(RSub(points[i].temperature, meanT)))),
   denE |-> RSum(Tabulate(Len(points), LAMBDA i :
              RSq(RSub(points[i].electricity, meanE))))]

CorrelationSums(points) ==
  CHOOSE sums \in
    { CorrelationSumsAbout(points, meanT, meanE) :
      meanT \in {Mean(Temperatures(points))},
      meanE \in {Mean(Electricities(points))} } : TRUE

\* The correlation of more than 2 points
CorrelationOfPoints(points) ==
  CHOOSE r \in
    { CorrelationOf(sums.num, sums.denT, sums.denE) :
      sums \in {CorrelationSums(points)} } : TRUE

\* weatherCorrelation: 0 unless more than 2 days have a temperature
WeatherCorrelation(daily) ==
  CHOOSE r \in
    { IF Len(points) > 2 THEN CorrelationOfPoints(points) ELSE RZero :
      points \in {TempVsElectricity(daily)} } : TRUE

\* ------------------------------------------------------------------------
\* SpecForecast: the forecaster over bounded month series of one building
\* ------------------------------------------------------------------------

MaxMonths == 5

FcBuilding == <<"H", "a", "l", "l">>

\* The month of the first total of a series
FcFirst == [year |-> 2024, month |-> 9]

\* Monthly totals the series are drawn from (kWh)
FcKwhValues ==
  { R(0), R(5000), R(10002), R(99000), R(100000), R(101000), R(102000) }

\* The key of the n-th month (n >= 0) counted from FcFirst
NthMonthKey(n) ==
  LET k == (FcFirst.month - 1) + n
  IN  MonthKey(FcFirst.year + (k \div 12), (k % 12) + 1)

FcInit ==
  /\ pc = "stream"
  /\ tzOffset = 0
  /\ EmptyTwo
  /\ rowCount = 0
  /\ elecRowCount = 0
  /\ earliestTsMs = None
  /\ siteMap = <<>>
  /\ hourlyMap = <<>>
  /\ buildingStatsMap = <<>>
  /\ buildingMonthMap = << <<FcBuilding, <<>> >> >>
  /\ utilitySamples = <<>>
  /\ utilityMonthAggMap = <<>>
  /\ dailyWeatherMap = <<>>
  /\ bwMap = <<>>
  /\ EmptySide
  /\ EmptyOut

\* The stream adds the total of the next month to the building's month map
FcAddMonth ==
  /\ pc = "stream"
  /\ Len(buildingMonthMap[1][2]) < MaxMonths
  /\ \E kwh \in FcKwhValues :
       buildingMonthMap' =
         MapSet(buildingMonthMap, FcBuilding,
                MapSet(buildingMonthMap[1][2], NthMonthKey(Len(buildingMonthMap[1][2])), kwh))
  /\ UNCHANGED <<pc, tzOffset, twoVars, rowCount, elecRowCount, earliestTsMs, siteMap, hourlyMap,
                 buildingStatsMap, utilitySamples, utilityMonthAggMap, dailyWeatherMap,
                 bwMap, sideVars, outVars>>

\* End of the stream: the predictions are derived from the month map
FcEmit ==
  /\ pc = "stream"
  /\ pc' = "done"
  /\ forecastLocals' = ForecastLocals(buildingMonthMap)
  /\ buildingPredictions' = BuildingPredictions(buildingMonthMap, forecastLocals')
  /\ UNCHANGED <<tzOffset, twoVars, streamVars, sideVars, buildings, hourlyData, dailyData,
                 buildingConsumption, buildingMonthlyData, buildingMoMChanges, weatherCorrelation>>

FcNext == FcAddMonth \/ FcEmit

SpecForecast == FcInit /\ [][FcNext]_vars

\* ------------------------------------------------------------------------
\* Spec: a run of parseAllCsvFiles over a bounded primary source
\* ------------------------------------------------------------------------

MaxRows == 3

\* Offsets of the runtime's zone: US Eastern standard time, UTC, India
TzOffsets == { -300, 0, 330 }

ElectricityLabel == <<"E", "L", "E", "C", "T", "R", "I", "C", "I", "T", "Y">>

SteamLabel == <<"S", "T", "E", "A", "M">>

BuildingNames == { <<"H", "a", "l", "l">>, <<"L", "a", "b">> }

\* The hours read, each with the temperature the source joins to it
\* (a temperature of 0 is how a missing one reads)
Readings ==
  { [readingtime |-> Some(UtcInstant(2024, 9, 30, 23, 40)), temperature_2m |-> R(15),
     precipitation |-> RZero, wind_speed_10m |-> R(5)],
    [readingtime |-> Some(UtcInstant(2024, 12, 31, 23, 40)), temperature_2m |-> Rat(-7, 2),
     precipitation |-> Rat(1, 2), wind_speed_10m |-> None],
    [readingtime |-> Some(UtcInstant(2025, 1, 1, 0, 10)), temperature_2m |-> RZero,
     precipitation |-> None, wind_speed_10m |-> None],
    [readingtime |-> Some(UtcInstant(2025, 1, 1, 1, 20)), temperature_2m |-> R(2),
     precipitation |-> Rat(1, 4), wind_speed_10m |-> R(8)] }

ReadingSums == { Rat(1, 2) }

\* The site cells the source joins to a building: Hall has an area, Lab none
SiteOf(b) ==
  IF b = <<"H", "a", "l", "l">>
  THEN [grossarea |-> R(200), simscode |-> <<"0", "7">>]
  ELSE [grossarea |-> None, simscode |-> <<>>]

\* The rows of building_metadata_selected.csv: none for the buildings read
BuildingMetaRows == <<>>

\* The rows of weather_daily_selected.csv: one of a date that is read, and one
\* whose date is no date
WeatherDailyRows ==
  << [date |-> Some(UtcInstant(2025, 1, 1, 0, 0)), temperature_2m |-> R(3),
      precipitation |-> Rat(3, 4), wind_speed_10m |-> R(6)],
     [date |-> None, temperature_2m |-> R(9), precipitation |-> R(9),
      wind_speed_10m |-> R(9)] >>

ElectricityRows ==
  { [utility |-> ElectricityLabel, readingtime |-> r.readingtime,
     buildingname |-> b, readingwindowsum |-> k, temperature_2m |-> r.temperature_2m,
     precipitation |-> r.precipitation, wind_speed_10m |-> r.wind_speed_10m,
     readingunitsdisplay |-> <<>>, readingunits |-> <<>>,
     grossarea |-> SiteOf(b).grossarea, simscode |-> SiteOf(b).simscode] :
    r \in Readings, b \in BuildingNames, k \in ReadingSums }

SteamUnit == <<"l", "b">>

\* The label of the rows whose readingtime is no date
ElectricLabel == <<"e", "l", "e", "c", "t", "r", "i", "c">>

\* A row of another utility, an electricity row whose readingtime is no date,
\* and a row without a utility label
OtherRows ==
  { [utility |-> SteamLabel, readingtime |-> Some(UtcInstant(2025, 1, 1, 0, 10)),
     buildingname |-> <<"H", "a", "l", "l">>, readingwindowsum |-> R(2),
     temperature_2m |-> R(2), precipitation |-> Rat(1, 4), wind_speed_10m |-> R(8),
     readingunitsdisplay |-> <<>>, readingunits |-> SteamUnit,
     grossarea |-> R(200), simscode |-> <<"0", "7">>],
    [utility |-> ElectricLabel, readingtime |-> None,
     buildingname |-> <<"H", "a", "l", "l">>, readingwindowsum |-> R(2),
     temperature_2m |-> R(2), precipitation |-> Rat(1, 4), wind_speed_10m |-> R(8),
     readingunitsdisplay |-> <<>>, readingunits |-> <<>>,
     grossarea |-> R(200), simscode |-> <<"0", "7">>],
    [utility |-> <<" ">>, readingtime |-> Some(UtcInstant(2025, 1, 1, 0, 10)),
     buildingname |-> <<"H", "a", "l", "l">>, readingwindowsum |-> R(2),
     temperature_2m |-> R(2), precipitation |-> Rat(1, 4), wind_speed_10m |-> R(8),
     readingunitsdisplay |-> <<>>, readingunits |-> <<>>,
     grossarea |-> R(200), simscode |-> <<"0", "7">>] }

Rows == ElectricityRows \cup OtherRows

Init ==
  /\ pc = "stream"
  /\ tzOffset \in TzOffsets
  /\ EmptyTwo
  /\ EmptyStream
  /\ EmptySide
  /\ EmptyOut

\* The step handler of parsePrimaryCsv on one row
StepRow(row) ==
  /\ rowCount' = RowCountAfter(rowCount, row)
  /\ utilitySamples' = UtilitySamplesAfter(utilitySamples, row)
  /\ utilityMonthAggMap' = UtilityMonthAggMapAfter(utilityMonthAggMap, row, tzOffset)
  /\ IF PassesGate(row)
     THEN /\ elecRowCount' = elecRowCount + 1
          /\ earliestTsMs' =
               IF earliestTsMs = None
                  \/ GetTime(toDate(row.readingtime)) < GetTime(earliestTsMs)
               THEN toDate(row.readingtime) ELSE earliestTsMs
          /\ siteMap' = SiteMapAfter(siteMap, row)
          /\ hourlyMap' = HourlyMapAfter(hourlyMap, row, tzOffset)
          /\ buildingStatsMap' = BuildingStatsMapAfter(buildingStatsMap, row)
          /\ buildingMonthMap' = BuildingMonthMapAfter(buildingMonthMap, row, tzOffset)
          /\ dailyWeatherMap' = DailyWeatherMapAfter(dailyWeatherMap, row)
          /\ bwMap' = BwMapAfter(bwMap, row)
     ELSE UNCHANGED <<elecRowCount, earliestTsMs, siteMap, hourlyMap, buildingStatsMap,
                      buildingMonthMap, dailyWeatherMap, bwMap>>

Step ==
  /\ pc = "stream"
  /\ rowCount < MaxRows
  /\ \E row \in Rows : StepRow(row)
  /\ UNCHANGED <<pc, tzOffset, twoVars, sideVars, outVars>>

\* new Error("No electricity rows found in ...") with no utility values listed
NoElectricityErrorBare(file, samples) ==
  [message |-> "No electricity rows found", source |-> file, samples |-> <<>>]

\* new Error(`No electricity rows found in ${primarySource}. ... Found unique
\* utility values: ${primary.utilitySamples.join(", ")}`)
NoElectricityError(file, samples) ==
  [message |-> "No electricity rows found", source |-> file, samples |-> samples]

\* The result of parseAllCsvFiles from the maps of the stream: the series are
\* derived, the daily weather is supplemented and the weather model is built
Assemble ==
  /\ buildings' = Buildings(siteMap, MetaMap(BuildingMetaRows))
  /\ hourlyData' = HourlyData(hourlyMap, GetTime(earliestTsMs), tzOffset)
  /\ dailyWeatherMap' = DailyWeatherSupplemented(dailyWeatherMap, WeatherDailyRows)
  /\ dailyData' = DailyData(hourlyData', WeatherDailyRows, dailyWeatherMap')
  /\ buildingConsumption' = BuildingConsumption(buildings', buildingStatsMap)
  /\ buildingMonthlyData' = BuildingMonthlyData(buildingMonthMap)
  /\ buildingMoMChanges' = BuildingMoMChanges(buildingMonthMap)
  /\ forecastLocals' = ForecastLocals(buildingMonthMap)
  /\ buildingPredictions' = BuildingPredictions(buildingMonthMap, forecastLocals')
  /\ weatherCorrelation' = WeatherCorrelation(dailyData')
  /\ weatherEntries' = BuildingWeatherData(bwMap, WeatherDailyByDate(WeatherDailyRows))
  /\ BuildWeatherModel(weatherEntries')

\* The stream completed with electricity rows
Finish ==
  /\ pc = "stream"
  /\ elecRowCount # 0
  /\ pc' = "done"
  /\ Assemble
  /\ UNCHANGED <<tzOffset, twoVars, rowCount, elecRowCount, earliestTsMs, siteMap, hourlyMap,
                 buildingStatsMap, buildingMonthMap, utilitySamples, utilityMonthAggMap,
                 bwMap, goldVars, schemaVars, runVars>>

\* The stream completed without electricity rows: the run throws
Fail ==
  /\ pc = "stream"
  /\ elecRowCount = 0
  /\ pc' = "error"
  /\ runError' = Some(NoElectricityError(primarySource, utilitySamples))
  /\ UNCHANGED <<tzOffset, twoVars, streamVars, goldVars, schemaVars, modelVars, headersByFile,
                 weatherHeaderReadIssue, primarySource, reads, warnings, info, outVars>>

Next == Step \/ Finish \/ Fail

Spec == Init /\ [][Next]_vars

\* ------------------------------------------------------------------------
\* The reads of parseAllCsvFiles: header validation, the full parses of the
\* small files, the stream of the primary source and its fallback.  An Error
\* is [fileName, parts: the texts its message is joined from].
\* ------------------------------------------------------------------------

\* /requested file could not be read|notreadableerror|permission problems/i
ReadIssuePhrases ==
  { <<"r", "e", "q", "u", "e", "s", "t", "e", "d", " ", "f", "i", "l", "e", " ", "c",
       "o", "u", "l", "d", " ", "n", "o", "t", " ", "b", "e", " ", "r", "e", "a", "d">>,
    <<"n", "o", "t", "r", "e", "a", "d", "a", "b", "l", "e", "e", "r", "r", "o", "r">>,
    <<"p", "e", "r", "m", "i", "s", "s", "i", "o", "n", " ", "p", "r", "o", "b", "l",
       "e", "m", "s">> }

\* Mutant of isLikelyFileReadIssueMessage: no message is taken for a read issue
isNeverFileReadIssueMessage(parts) == FALSE

isLikelyFileReadIssueMessage(parts) ==
  \E i \in 1..Len(parts) : \E phrase \in ReadIssuePhrases :
    Includes(ToLowerCase(parts[i]), phrase)

\* "Re-select this file and try again (the file may have been regenerated
\* after selection)."
RetryHint ==
  <<"R", "e", "-", "s", "e", "l", "e", "c", "t", " ", "t", "h", "i", "s", " ", "f", "i",
     "l", "e", " ", "a", "n", "d", " ", "t", "r", "y", " ", "a", "g", "a", "i", "n">>

\* formatFileReadError: the message of a read issue gets the hint, once
formatFileReadError(fileName, parts) ==
  [fileName |-> fileName,
   parts |-> IF isLikelyFileReadIssueMessage(parts)
                /\ \A i \in 1..Len(parts) : parts[i] # RetryHint
             THEN Append(parts, RetryHint) ELSE parts]

\* The message of the browser's NotReadableError
NotReadableText ==
  <<"N", "o", "t", "R", "e", "a", "d", "a", "b", "l", "e", "E", "r", "r", "o", "r">>

\* "header row is empty."
EmptyHeaderText ==
  <<"h", "e", "a", "d", "e", "r", " ", "r", "o", "w", " ", "i", "s", " ", "e", "m", "p",
     "t", "y", ".">>

\* A column a header may have beside the expected ones
PermissionColumn ==
  <<"P", "e", "r", "m", "i", "s", "s", "i", "o", "n", " ", "p", "r", "o", "b", "l", "e",
     "m", "s">>

\* new Error(headerErr): the texts of the message of validateColumns are the
\* missing and the found column names (its fixed words hold no phrase of
\* ReadIssuePhrases)
SchemaError(headerErr) ==
  [fileName |-> headerErr.fileName, parts |-> headerErr.missing \o headerErr.found]

\* What reading the first row of a file may give: its columns, or the error
\* Papa.parse or the fallback of parseCsvHeader rejects with
HeaderReads(fileName) ==
  { [error |-> None, columns |-> EXPECTED_COLUMNS(fileName)],
    [error |-> None, columns |-> Tail(EXPECTED_COLUMNS(fileName))],
    [error |-> Some(<<NotReadableText>>), columns |-> <<>>] }
  \cup IF fileName = PrimaryFile
       THEN { [error |-> None,
               columns |-> Append(Tail(EXPECTED_COLUMNS(fileName)), PermissionColumn)],
              [error |-> Some(<<EmptyHeaderText>>), columns |-> <<>>] }
       ELSE {}

\* What a full parse or a stream may end with: completion, or the error
\* Papa.parse rejects with
ReadErrors == { <<NotReadableText>>, <<EmptyHeaderText>> }

\* The rows a run streams, and how many at most
MaxRunRows == 2

RunRows ==
  { row \in Rows :
      /\ row.buildingname = <<"H", "a", "l", "l">>
      /\ row.readingtime = Some(UtcInstant(2025, 1, 1, 0, 10)) }

\* A row of meter_building_merged.csv: the columns of the weather join are absent
SecondaryRow(row) ==
  [row EXCEPT !.temperature_2m = None, !.precipitation = None, !.wind_speed_10m = None,
              !.grossarea = None]

\* The row as the source that is streamed holds it
RowOf(file, row) == IF file = SecondaryFile THEN SecondaryRow(row) ELSE row

\* The entry of the history of reads: pass is "header", "full" or "stream",
\* outcome is "ok", "schema" (columns missing) or "failed" (the read rejected)
Read(file, pass, outcome) == [file |-> file, pass |-> pass, outcome |-> outcome]

\* How many headers the loop has read
HeadersRead == Cardinality({ i \in 1..Len(reads) : reads[i].pass = "header" })

\* The run throws err
Throw(err) ==
  /\ pc' = "error"
  /\ runError' = Some(err)

\* console.warn("meter_building_weather_merged.csv was unreadable in this
\* browser session; using meter_building_merged.csv as fallback source.", ...)
FallbackNotice(issue) ==
  [unreadable |-> PrimaryFile, using |-> SecondaryFile, issue |-> issue]

\* The catch of the header loop: a read issue of the weather-merged file is
\* kept and the loop continues, any other error is thrown
CatchHeaderError(fileName, err, outcome, headers) ==
  /\ reads' = Append(reads, Read(fileName, "header", outcome))
  /\ IF fileName = PrimaryFile /\ isLikelyFileReadIssueMessage(err.parts)
     THEN /\ headersByFile' = MapSet(headers, fileName, <<>>)
          /\ weatherHeaderReadIssue' = Some(err)
          /\ pc' = IF HeadersRead + 1 = Len(REQUIRED_FILES) THEN "meta" ELSE "headers"
          /\ UNCHANGED runError
     ELSE /\ Throw(err)
          /\ headersByFile' = headers
          /\ UNCHANGED weatherHeaderReadIssue

\* One iteration of the header loop on fileName, whose header reads as got
ReadHeader(fileName, got) ==
  IF got.error # None
  THEN CatchHeaderError(fileName, formatFileReadError(fileName, got.error[1]), "failed",
                        headersByFile)
  ELSE \E headerErr \in {validateColumns(fileName, sanitizeColumns(got.columns))} :
         IF headerErr # None
         THEN CatchHeaderError(fileName, SchemaError(headerErr[1]), "schema",
                               MapSet(headersByFile, fileName, sanitizeColumns(got.columns)))
         ELSE /\ reads' = Append(reads, Read(fileName, "header", "ok"))
              /\ headersByFile' = MapSet(headersByFile, fileName, sanitizeColumns(got.columns))
              /\ pc' = IF HeadersRead + 1 = Len(REQUIRED_FILES) THEN "meta" ELSE "headers"
              /\ UNCHANGED <<weatherHeaderReadIssue, runError>>

RunInit ==
  /\ pc = "headers"
  /\ tzOffset = 0
  /\ EmptyTwo
  /\ EmptyStream
  /\ EmptySide
  /\ EmptyOut

\* const columns = await parseCsvHeader(files[fileName]) and the rest of the
\* iteration
RunReadHeader ==
  /\ pc = "headers"
  /\ \E got \in HeaderReads(REQUIRED_FILES[HeadersRead + 1]) :
       ReadHeader(REQUIRED_FILES[HeadersRead + 1], got)
  /\ UNCHANGED <<tzOffset, twoVars, streamVars, goldVars, schemaVars, modelVars, primarySource,
                 warnings, info, outVars>>

\* A full parse of a small file completed or rejected
FullParse(fileName, then) ==
  /\ \/ /\ reads' = Append(reads, Read(fileName, "full", "ok"))
        /\ pc' = then
        /\ UNCHANGED runError
     \/ \E parts \in ReadErrors :
          /\ reads' = Append(reads, Read(fileName, "full", "failed"))
          /\ Throw(formatFileReadError(fileName, parts))
  /\ UNCHANGED <<tzOffset, twoVars, streamVars, goldVars, schemaVars, modelVars, headersByFile,
                 weatherHeaderReadIssue, primarySource, warnings, info, outVars>>

\* const buildingMeta = await parseCsvFile(files["building_metadata_selected.csv"])
RunParseMeta ==
  /\ pc = "meta"
  /\ FullParse("building_metadata_selected.csv", "weatherDaily")

\* const weatherDaily = await parseCsvFile(files["weather_daily_selected.csv"])
RunParseWeatherDaily ==
  /\ pc = "weatherDaily"
  /\ FullParse("weather_daily_selected.csv", "primary")

\* The file parsePrimaryCsv is streaming
Streaming == IF pc = "secondary" THEN SecondaryFile ELSE PrimaryFile

\* The step handler on one more row of the file that is streamed
RunStep ==
  /\ pc \in {"primary", "secondary"}
  /\ rowCount < MaxRunRows
  /\ \E row \in RunRows : StepRow(RowOf(Streaming, row))
  /\ UNCHANGED <<pc, tzOffset, twoVars, sideVars, outVars>>

\* The stream rejected.  A read issue of the weather-merged file makes
\* meter_building_merged.csv the source, streamed by a new call of
\* parsePrimaryCsv with maps of its own; any other error is thrown
RunStreamError ==
  /\ pc \in {"primary", "secondary"}
  /\ \E parts \in ReadErrors :
       /\ reads' = Append(reads, Read(Streaming, "stream", "failed"))
       /\ IF pc = "primary" /\ isLikelyFileReadIssueMessage(formatFileReadError(Streaming, parts).parts)
          THEN /\ primarySource' = SecondaryFile
               /\ pc' = "secondary"
               /\ rowCount' = 0
               /\ elecRowCount' = 0
               /\ earliestTsMs' = None
               /\ siteMap' = <<>>
               /\ hourlyMap' = <<>>
               /\ buildingStatsMap' = <<>>
               /\ buildingMonthMap' = <<>>
               /\ utilitySamples' = <<>>
               /\ utilityMonthAggMap' = <<>>
               /\ dailyWeatherMap' = <<>>
               /\ bwMap' = <<>>
               /\ UNCHANGED runError
          ELSE /\ Throw(formatFileReadError(Streaming, parts))
               /\ UNCHANGED <<primarySource, streamVars>>
  /\ UNCHANGED <<tzOffset, twoVars, goldVars, schemaVars, modelVars, headersByFile,
                 weatherHeaderReadIssue, warnings, info, outVars>>

\* info.meterBuilding and info.meterBuildingWeather
Info(headers, usedSource, count) ==
  [meterBuilding |->
     [fileName |-> SecondaryFile, rowCount |-> -1, columns |-> MapGet(headers, SecondaryFile)],
   meterBuildingWeather |->
     [fileName |-> PrimaryFile,
      rowCount |-> IF usedSource = PrimaryFile THEN count ELSE -1,
      columns |-> IF Len(MapGet(headers, PrimaryFile)) > 0
                  THEN MapGet(headers, PrimaryFile)
                  ELSE <<"(unreadable in browser session)">>]]

\* The stream completed: the rest of parseAllCsvFiles runs without awaiting
RunStreamComplete ==
  /\ pc \in {"primary", "secondary"}
  /\ reads' = Append(reads, Read(Streaming, "stream", "ok"))
  /\ IF elecRowCount = 0
     THEN /\ Throw(NoElectricityError(primarySource, utilitySamples))
          /\ UNCHANGED <<streamVars, modelVars, warnings, info, outVars>>
     ELSE /\ pc' = "done"
          /\ warnings' = IF weatherHeaderReadIssue # None
                         THEN Append(warnings, FallbackNotice(weatherHeaderReadIssue[1]))
                         ELSE warnings
          /\ info' = Some(Info(headersByFile, primarySource, rowCount))
          /\ Assemble
          /\ UNCHANGED <<rowCount, elecRowCount, earliestTsMs, siteMap, hourlyMap,
                         buildingStatsMap, buildingMonthMap, utilitySamples,
                         utilityMonthAggMap, bwMap, runError>>
  /\ UNCHANGED <<tzOffset, twoVars, goldVars, schemaVars, headersByFile, weatherHeaderReadIssue,
                 primarySource>>

RunNext ==
  \/ RunReadHeader
  \/ RunParseMeta
  \/ RunParseWeatherDaily
  \/ RunStep
  \/ RunStreamError
  \/ RunStreamComplete

SpecRun == RunInit /\ [][RunNext]_vars

\* ------------------------------------------------------------------------
\* Two calls of the pipeline side by side.  Each call of parsePrimaryCsv
\* creates its maps with `new Map()`; the calls take turns where they await:
\* before the stream starts, between rows delivered by the parser's worker,
\* and when the stream completes.
\* ------------------------------------------------------------------------

RunIds == {1, 2}

\* The rows a streamed file may hold, and how many at most
MaxFileRows == 2

FileRows ==
  { row \in ElectricityRows :
      \/ /\ row.buildingname = <<"H", "a", "l", "l">>
         /\ row.readingtime = Some(UtcInstant(2025, 1, 1, 1, 20))
      \/ /\ row.buildingname = <<"L", "a", "b">>
         /\ row.readingtime = Some(UtcInstant(2024, 12, 31, 23, 40)) }
  \cup { row \in OtherRows : row.utility = SteamLabel }

\* The files of at most MaxFileRows rows
Files == UNION { [1..n -> FileRows] : n \in 0..MaxFileRows }

\* The maps and counters a call of parsePrimaryCsv creates
EmptyPrimary ==
  [rowCount |-> 0, elecRowCount |-> 0, earliestTsMs |-> None, siteMap |-> <<>>,
   hourlyMap |-> <<>>, buildingStatsMap |-> <<>>, buildingMonthMap |-> <<>>,
   utilitySamples |-> <<>>, utilityMonthAggMap |-> <<>>, dailyWeatherMap |-> <<>>,
   bwMap |-> <<>>]

\* The maps and counters after the step handler ran on the row
PrimaryAfter(st, row, offset) ==
  IF PassesGate(row)
  THEN [rowCount |-> RowCountAfter(st.rowCount, row),
        utilitySamples |-> UtilitySamplesAfter(st.utilitySamples, row),
        utilityMonthAggMap |-> UtilityMonthAggMapAfter(st.utilityMonthAggMap, row, offset),
        elecRowCount |-> st.elecRowCount + 1,
        earliestTsMs |->
          IF st.earliestTsMs = None
             \/ GetTime(toDate(row.readingtime)) < GetTime(st.earliestTsMs)
          THEN toDate(row.readingtime) ELSE st.earliestTsMs,
        siteMap |-> SiteMapAfter(st.siteMap, row),
        hourlyMap |-> HourlyMapAfter(st.hourlyMap, row, offset),
        buildingStatsMap |-> BuildingStatsMapAfter(st.buildingStatsMap, row),
        buildingMonthMap |-> BuildingMonthMapAfter(st.buildingMonthMap, row, offset),
        dailyWeatherMap |-> DailyWeatherMapAfter(st.dailyWeatherMap, row),
        bwMap |-> BwMapAfter(st.bwMap, row)]
  ELSE [st EXCEPT
          !.rowCount = RowCountAfter(st.rowCount, row),
          !.utilitySamples = UtilitySamplesAfter(st.utilitySamples, row),
          !.utilityMonthAggMap = UtilityMonthAggMapAfter(st.utilityMonthAggMap, row, offset)]

\* What the call returns from the maps of its stream: the error of an empty
\* electricity series, or the series derived from the maps
ResultOf(st, offset) ==
  IF st.elecRowCount = 0
  THEN [error |-> Some(NoElectricityError(PrimaryFile, st.utilitySamples)),
        rowCount |-> st.rowCount, hourlyData |-> <<>>, buildingMonthlyData |-> <<>>,
        buildingWeatherData |-> <<>>]
  ELSE [error |-> None,
        rowCount |-> st.rowCount,
        hourlyData |-> HourlyData(st.hourlyMap, GetTime(st.earliestTsMs), offset),
        buildingMonthlyData |-> BuildingMonthlyData(st.buildingMonthMap),
        buildingWeatherData |->
          BuildingWeatherData(st.bwMap, WeatherDailyByDate(WeatherDailyRows))]

\* Mutant of NewPrimary: the maps are created once, at module level
SharedPrimary(created) == 1

\* The map set a call of parsePrimaryCsv creates: one no other call holds
NewPrimary(created) == Len(created) + 1

TwoInit ==
  /\ pc = "two"
  /\ tzOffset = 0
  /\ invocations \in [RunIds -> { [at |-> "start", rows |-> file, read |-> 0, primary |-> 0,
                                   result |-> None] : file \in Files }]
  /\ primaries = <<>>
  /\ EmptyStream
  /\ EmptySide
  /\ EmptyOut

\* The call enters parsePrimaryCsv, which creates its maps
TwoStart(i) ==
  /\ invocations[i].at = "start"
  /\ \E id \in {NewPrimary(primaries)} :
       /\ primaries' = IF id > Len(primaries) THEN Append(primaries, EmptyPrimary)
                       ELSE primaries
       /\ invocations' = [invocations EXCEPT ![i].at = "stream", ![i].primary = id]
  /\ UNCHANGED <<pc, tzOffset, streamVars, sideVars, outVars>>

\* The step handler of the call runs on the next row of its file
TwoStep(i) ==
  /\ invocations[i].at = "stream"
  /\ invocations[i].read < Len(invocations[i].rows)
  /\ primaries' =
       [primaries EXCEPT ![invocations[i].primary] =
          PrimaryAfter(@, invocations[i].rows[invocations[i].read + 1], tzOffset)]
  /\ invocations' = [invocations EXCEPT ![i].read = @ + 1]
  /\ UNCHANGED <<pc, tzOffset, streamVars, sideVars, outVars>>

\* The stream of the call completed: it returns, or throws, from its maps
TwoComplete(i) ==
  /\ invocations[i].at = "stream"
  /\ invocations[i].read = Len(invocations[i].rows)
  /\ invocations' =
       [invocations EXCEPT
          ![i].at = "returned",
          ![i].result = Some(ResultOf(primaries[invocations[i].primary], tzOffset))]
  /\ UNCHANGED <<pc, tzOffset, primaries, streamVars, sideVars, outVars>>

TwoNext == \E i \in RunIds : TwoStart(i) \/ TwoStep(i) \/ TwoComplete(i)

SpecTwo == TwoInit /\ [][TwoNext]_vars

\* ------------------------------------------------------------------------
\* SpecGold: buildParsedDataFromGold over a bounded gold table
\* ------------------------------------------------------------------------

MaxGoldRows == 3

GoldSiteNames == { <<"H", "a", "l", "l">>, <<"L", "a", "b">> }

\* Electricity rows of a site, with or without an area and an intensity
GoldSiteRows ==
  { [utility |-> ElectricityLabel, sitename |-> n, simscode |-> None,
     grossarea |-> a, kwh_per_sqft |-> k, readingvalue |-> R(25)] :
    n \in GoldSiteNames, a \in { None, RZero, R(200) }, k \in { None, Rat(1, 8) } }

\* A row of another utility, and an electricity row without a site name
GoldOtherRows ==
  { [utility |-> SteamLabel, sitename |-> <<"H", "a", "l", "l">>, simscode |-> None,
     grossarea |-> R(200), kwh_per_sqft |-> Rat(1, 8), readingvalue |-> R(25)],
    [utility |-> None, sitename |-> <<>>, simscode |-> None,
     grossarea |-> R(200), kwh_per_sqft |-> Rat(1, 8), readingvalue |-> R(25)] }

GoldInit ==
  /\ pc = "load"
  /\ tzOffset = 0
  /\ EmptyTwo
  /\ EmptyStream
  /\ EmptySide
  /\ EmptyOut

\* The table read from df_gold.parquet holds one more row
GoldAddRow ==
  /\ pc = "load"
  /\ Len(goldRows) < MaxGoldRows
  /\ \E r \in GoldSiteRows \cup GoldOtherRows : goldRows' = Append(goldRows, r)
  /\ UNCHANGED <<pc, tzOffset, twoVars, streamVars, schemaVars, modelVars, runVars, outVars>>

\* buildParsedDataFromGold(rows)
GoldBuild ==
  /\ pc = "load"
  /\ pc' = "done"
  /\ buildings' = GoldBuildings(GoldSiteMap(GoldElecRows(goldRows)))
  /\ buildingConsumption' =
       GoldBuildingConsumption(buildings', GoldBuildingStatsMap(GoldElecRows(goldRows)))
  /\ UNCHANGED <<tzOffset, twoVars, streamVars, sideVars, hourlyData, dailyData,
                 buildingMonthlyData, buildingMoMChanges, forecastLocals, buildingPredictions,
                 weatherCorrelation>>

GoldNext == GoldAddRow \/ GoldBuild

SpecGold == GoldInit /\ [][GoldNext]_vars

\* ------------------------------------------------------------------------
\* SpecValidate: the validators over headers written in bounded ways
\* ------------------------------------------------------------------------

\* How many of the leading required columns may be written other than plainly
MaxDecorated == 3

GoldSource == "df_gold.parquet"

Sources == Range(REQUIRED_FILES) \cup { GoldSource }

RequiredOf(src) == IF src = GoldSource THEN REQUIRED_COLUMNS ELSE EXPECTED_COLUMNS(src)

\* The ways a column name is written: plainly, behind a byte-order mark, in
\* upper case, between spaces
Decorate(name, style) ==
  IF style = "bom" THEN <<"BOM">> \o name
  ELSE IF style = "upper" THEN ToUpperCase(name)
  ELSE IF style = "padded" THEN <<" ">> \o name \o <<" ">>
  ELSE name

DecoratedStyles == <<"bom", "upper", "padded">>

\* The styles the k-th required column may be written in
StylesAt(k) ==
  IF k <= MaxDecorated THEN { "plain", DecoratedStyles[((k - 1) % 3) + 1] } ELSE { "plain" }

ValInit ==
  /\ pc = "header"
  /\ tzOffset = 0
  /\ EmptyTwo
  /\ EmptyStream
  /\ goldRows = <<>>
  /\ source \in Sources
  /\ header = <<>>
  /\ cursor = 0
  /\ writtenColumns = {}
  /\ validation = None
  /\ EmptyModel
  /\ EmptyRun
  /\ EmptyOut

\* The next required column is left out of the header
ValOmitColumn ==
  /\ pc = "header"
  /\ cursor < Len(RequiredOf(source))
  /\ cursor' = cursor + 1
  /\ UNCHANGED <<pc, tzOffset, twoVars, streamVars, goldVars, modelVars, runVars, source, header, writtenColumns,
                 validation, outVars>>

\* The next required column is written into the header
ValWriteColumn ==
  /\ pc = "header"
  /\ cursor < Len(RequiredOf(source))
  /\ cursor' = cursor + 1
  /\ \E style \in StylesAt(cursor + 1) :
       /\ header' = Append(header, Decorate(RequiredOf(source)[cursor + 1], style))
       /\ writtenColumns' =
            writtenColumns \cup { [name |-> RequiredOf(source)[cursor + 1], style |-> style] }
  /\ UNCHANGED <<pc, tzOffset, twoVars, streamVars, goldVars, modelVars, runVars, source, validation, outVars>>

\* The header is validated: validateColumns on the sanitized header of a CSV
\* source (parseCsvHeader), validateGoldColumns on the columns of the gold table
ValValidate ==
  /\ pc = "header"
  /\ cursor = Len(RequiredOf(source))
  /\ pc' = "validated"
  /\ validation' =
       IF source = GoldSource THEN Some(validateGoldColumns(header))
       ELSE Some(validateColumns(source, sanitizeColumns(header)))
  /\ UNCHANGED <<tzOffset, twoVars, streamVars, goldVars, modelVars, runVars, source, header, cursor, writtenColumns,
                 outVars>>

\* The record Papa hands to the step handler (header: true): the cells of a
\* line under the fields of the header as they are written
RawRow(fields, cells) == [i \in 1..Len(fields) |-> <<fields[i], cells[i]>>]

\* normalizeRowKeys: the cells under the normalized names of their keys
normalizeRowKeys(row) ==
  LET F[i \in 0..Len(row)] ==
        IF i = 0 THEN <<>>
        ELSE MapSet(F[i - 1], normalizeColumnName(row[i][1]), row[i][2])
  IN  F[Len(row)]

\* row[name] where the cell is text: Some(cell), or None for undefined
Lookup(row, name) == IF MapHas(row, name) THEN Some(MapGet(row, name)) ELSE None

\* The cells the step handler reads from the normalized record: text that is
\* absent reads as the empty string, a date or a number that is absent as none
CellsRead(row) ==
  LET Text(name) == IF Lookup(row, name) = None THEN <<>> ELSE Lookup(row, name)[1]
      Value(name) == IF Lookup(row, name) = None THEN None ELSE Lookup(row, name)[1]
  IN  [utility |-> Text(<<"u", "t", "i", "l", "i", "t", "y">>),
       readingtime |-> Value(<<"r", "e", "a", "d", "i", "n", "g", "t", "i", "m", "e">>),
       buildingname |-> Text(<<"b", "u", "i", "l", "d", "i", "n", "g", "n", "a", "m", "e">>),
       readingwindowsum |->
         Value(<<"r", "e", "a", "d", "i", "n", "g", "w", "i", "n", "d", "o", "w", "s", "u", "m">>),
       temperature_2m |->
         Value(<<"t", "e", "m", "p", "e", "r", "a", "t", "u", "r", "e", "_", "2", "m">>),
       precipitation |-> Value(<<"p", "r", "e", "c", "i", "p", "i", "t", "a", "t", "i", "o", "n">>),
       wind_speed_10m |->
         Value(<<"w", "i", "n", "d", "_", "s", "p", "e", "e", "d", "_", "1", "0", "m">>),
       readingunitsdisplay |->
         Text(<<"r", "e", "a", "d", "i", "n", "g", "u", "n", "i", "t", "s",
                "d", "i", "s", "p", "l", "a", "y">>),
       readingunits |-> Text(<<"r", "e", "a", "d", "i", "n", "g", "u", "n", "i", "t", "s">>),
       grossarea |-> Value(<<"g", "r", "o", "s", "s", "a", "r", "e", "a">>),
       simscode |-> Text(<<"s", "i", "m", "s", "c", "o", "d", "e">>)]

\* The cell of a line of an electricity reading under a required column
LineCell(name) ==
  IF name = <<"u", "t", "i", "l", "i", "t", "y">> THEN ElectricityLabel
  ELSE IF name = <<"r", "e", "a", "d", "i", "n", "g", "t", "i", "m", "e">>
    THEN Some(UtcInstant(2025, 1, 1, 0, 10))
  ELSE IF name = <<"r", "e", "a", "d", "i", "n", "g", "w", "i", "n", "d", "o", "w", "s", "u", "m">>
    THEN R(3)
  ELSE IF name = <<"b", "u", "i", "l", "d", "i", "n", "g", "n", "a", "m", "e">>
    THEN <<"H", "a", "l", "l">>
  ELSE IF name = <<"g", "r", "o", "s", "s", "a", "r", "e", "a">> THEN R(200)
  ELSE IF name = <<"t", "e", "m", "p", "e", "r", "a", "t", "u", "r", "e", "_", "2", "m">>
    THEN R(2)
  ELSE IF name = <<"s", "i", "m", "s", "c", "o", "d", "e">> THEN <<"0", "7">>
  ELSE IF name = <<"r", "e", "a", "d", "i", "n", "g", "u", "n", "i", "t", "s">>
    THEN <<"k", "W", "h">>
  ELSE <<>>

\* The line under the header: under each field the cell of the required
\* column the field is a way of writing
LineUnder(fields) == [i \in 1..Len(fields) |-> LineCell(ColumnKey(normalizeColumnName(fields[i])))]

\* The sources that parsePrimaryCsv streams
StreamedSources == { "meter_building_weather_merged.csv", "meter_building_merged.csv" }

\* The step handler of parsePrimaryCsv on the first line of a source whose
\* header passed validateColumns
ValStepRow ==
  /\ pc = "validated"
  /\ source \in StreamedSources
  /\ validation = Some(None)
  /\ pc' = "read"
  /\ \E raw \in {RawRow(header, LineUnder(header))} :
     \E normalized \in {normalizeRowKeys(raw)} :
     \E row \in {CellsRead(normalized)} : StepRow(row)
  /\ UNCHANGED <<tzOffset, twoVars, sideVars, outVars>>

ValNext == ValOmitColumn \/ ValWriteColumn \/ ValValidate \/ ValStepRow

SpecValidate == ValInit /\ [][ValNext]_vars

\* ------------------------------------------------------------------------
\* SpecModel: buildWeatherModel over bounded panels of one building, one
\* entry per date
\* ------------------------------------------------------------------------

MaxEntries == 10

PanelBuilding == <<"H", "a", "l", "l">>

\* The date of the day-th entry: 2025-06-01, 2025-06-02, ...
PanelDate(day) == IsoDateKey(UtcInstant(2025, 6, day, 12, 0))

\* The weather of a date: five cool days, then warm ones; calm and windy
\* days in turn
PanelTemperature(day) == IF day <= 5 THEN R(60) ELSE R(80)

PanelWindSpeed(day) == IF day % 2 = 1 THEN R(5) ELSE R(10)

\* The daily totals of the first six dates; the later ones vary
PanelKwh == <<1, 2, 1, 2, 1, 1>>

KwhChoices(day) == IF day <= Len(PanelKwh) THEN { PanelKwh[day] } ELSE { 1, 2 }

\* Dry on the first six dates; dry or wet on the later ones
PrecipitationChoices(day) == IF day <= Len(PanelKwh) THEN { RZero } ELSE { RZero, ROne }

EntryChoices(day) ==
  { [buildingName |-> PanelBuilding,
     date |-> PanelDate(day),
     electricity |-> R(kwh),
     temperature |-> PanelTemperature(day),
     precipitation |-> precip,
     windSpeed |-> PanelWindSpeed(day)] :
    kwh \in KwhChoices(day), precip \in PrecipitationChoices(day) }

ModelInit ==
  /\ pc = "entries"
  /\ tzOffset = 0
  /\ EmptyTwo
  /\ EmptyStream
  /\ goldRows = <<>>
  /\ EmptySchema
  /\ EmptyModel
  /\ EmptyRun
  /\ EmptyOut

\* One more entry reaches buildingWeatherData
ModelAddEntry ==
  /\ pc = "entries"
  /\ Len(weatherEntries) < MaxEntries
  /\ \E e \in EntryChoices(Len(weatherEntries) + 1) :
       weatherEntries' = Append(weatherEntries, e)
  /\ UNCHANGED <<pc, tzOffset, twoVars, streamVars, goldVars, schemaVars, runVars, modelLocals,
                 weatherModel, outVars>>

\* A panel whose totals follow the temperature: half a kWh on the cool days,
\* warmKwh on the warm ones
SteepKwh(day, warmKwh) == IF day <= 5 THEN Rat(1, 2) ELSE R(warmKwh)

WarmKwhChoices == { 2, 5 }

SteepPanel(precips, warmKwh) ==
  [day \in 1..MinModelRows |->
    [buildingName |-> PanelBuilding,
     date |-> PanelDate(day),
     electricity |-> SteepKwh(day, warmKwh),
     temperature |-> PanelTemperature(day),
     precipitation |-> precips[day],
     windSpeed |-> PanelWindSpeed(day)]]

\* The entries of a whole panel reach buildingWeatherData
ModelAddPanel ==
  /\ pc = "entries"
  /\ weatherEntries = <<>>
  /\ \E precips \in [1..MinModelRows -> {RZero, ROne}], warmKwh \in WarmKwhChoices :
       /\ \A day \in 1..MinModelRows : precips[day] \in PrecipitationChoices(day)
       /\ weatherEntries' = SteepPanel(precips, warmKwh)
  /\ UNCHANGED <<pc, tzOffset, twoVars, streamVars, goldVars, schemaVars, runVars, modelLocals,
                 weatherModel, outVars>>

\* Panels of several meters per date: four on each of the first nine or ten
\* dates, one or two on the one or two dates after them
CoverageCounts ==
  { [day \in 1..full |-> 4] \o partial :
    full \in {MinModelRows - 1, MinModelRows},
    partial \in {<<1>>, <<2>>, <<1, 2>>, <<1, 1>>} }

\* The entry of one of the count meters of a date: the meters of a date share
\* a daily total of 12 kWh, and the weather is the same on every date
CountedEntry(day, count) ==
  [buildingName |-> PanelBuilding,
   date |-> PanelDate(day),
   electricity |-> Rat(12, count),
   temperature |-> R(70),
   precipitation |-> RZero,
   windSpeed |-> R(5)]

CountedPanel(counts) ==
  Flatten(Tabulate(Len(counts), LAMBDA day :
    Tabulate(counts[day], LAMBDA meter : CountedEntry(day, counts[day]))))

\* The entries of a panel of several meters per date reach buildingWeatherData
ModelAddCounted ==
  /\ pc = "entries"
  /\ weatherEntries = <<>>
  /\ \E counts \in CoverageCounts : weatherEntries' = CountedPanel(counts)
  /\ UNCHANGED <<pc, tzOffset, twoVars, streamVars, goldVars, schemaVars, runVars, modelLocals,
                 weatherModel, outVars>>

\* buildWeatherModel(buildingWeatherData)
ModelBuild ==
  /\ pc = "entries"
  /\ pc' = "fitted"
  /\ BuildWeatherModel(weatherEntries)
  /\ UNCHANGED <<tzOffset, twoVars, streamVars, goldVars, schemaVars, runVars, weatherEntries, outVars>>

ModelNext == ModelAddEntry \/ ModelAddPanel \/ ModelAddCounted \/ ModelBuild

SpecModel == ModelInit /\ [][ModelNext]_vars

\* ------------------------------------------------------------------------
\* SpecCorr: the weather correlation over bounded daily series
\* ------------------------------------------------------------------------

MaxDays == 4

\* A day's total, and its mean temperature (0: the day has none)
DayKwhs == { 1, 2, 4 }

DayTemperatures == { RZero, R(10), Rat(41, 2) }

CorrInit ==
  /\ pc = "days"
  /\ tzOffset = 0
  /\ EmptyTwo
  /\ EmptyStream
  /\ EmptySide
  /\ EmptyOut

\* One more day reaches dailyData, in date order
CorrAddDay ==
  /\ pc = "days"
  /\ Len(dailyData) < MaxDays
  /\ \E kwh \in DayKwhs, temp \in DayTemperatures :
       dailyData' = Append(dailyData, [date |-> PanelDate(Len(dailyData) + 1),
                                       totalKwh |-> kwh,
                                       avgTemperature |-> temp])
  /\ UNCHANGED <<pc, tzOffset, twoVars, streamVars, sideVars, buildings, hourlyData,
                 buildingConsumption, buildingMonthlyData, buildingMoMChanges, forecastLocals,
                 buildingPredictions, weatherCorrelation>>

\* The correlation block of parseAllCsvFiles
CorrCompute ==
  /\ pc = "days"
  /\ pc' = "done"
  /\ weatherCorrelation' = WeatherCorrelation(dailyData)
  /\ UNCHANGED <<tzOffset, twoVars, streamVars, sideVars, buildings, hourlyData, dailyData,
                 buildingConsumption, buildingMonthlyData, buildingMoMChanges, forecastLocals,
                 buildingPredictions>>

CorrNext == CorrAddDay \/ CorrCompute

SpecCorr == CorrInit /\ [][CorrNext]_vars

\* ------------------------------------------------------------------------
\* Claims about the forecaster (checked under SpecForecast)
\* ------------------------------------------------------------------------

EmittedInBand(p, slackLow, slackHigh) ==
  /\ RLe(RSub(RMul(MinPredictedFactor, R(p.lastMonthKwh)), slackLow), R(p.predictedKwh))
  /\ RLe(R(p.predictedKwh), RAdd(RMul(MaxPredictedFactor, R(p.lastMonthKwh)), slackHigh))

\* C1 as stated: every emitted forecast record satisfies
\* 0.75 x lastMonthKwh <= predictedKwh <= 1.25 x lastMonthKwh.
C1_EmittedRecordInBand ==
  \A i \in 1..Len(buildingPredictions) : EmittedInBand(buildingPredictions[i], RZero, RZero)

\* C1 amended: the clamped estimate lies in [0.75, 1.25] x the last effective
\* month's value before rounding; both emitted fields are rounded to whole kWh,
\* so the emitted record satisfies the band up to rounding:
\* 0.75 x lastMonthKwh - 0.875 <= predictedKwh <= 1.25 x lastMonthKwh + 1.125.
C1_ClampedBeforeRounding ==
  /\ \A i \in 1..Len(forecastLocals) :
       LET f == forecastLocals[i]
       IN  f.emit =>
             /\ RLe(RMul(MinPredictedFactor, f.lastMonthKwh), f.predictedKwh)
             /\ RLe(f.predictedKwh, RMul(MaxPredictedFactor, f.lastMonthKwh))
  /\ \A i \in 1..Len(buildingPredictions) :
       EmittedInBand(buildingPredictions[i], Rat(7, 8), Rat(9, 8))

\* C1 witness: a forecast was emitted whose raw estimate lay above the band
C1_Witness ==
  /\ pc = "done"
  /\ Len(buildingPredictions) = 1
  /\ RLt(RMul(MaxPredictedFactor, forecastLocals[1].lastMonthKwh),
         forecastLocals[1].rawPredictedKwh)

\* C2: when at least two months are at or above the validity floor, no month
\* below the floor is the prior or the current month of a retained change.
C2_BelowFloorMonthsExcluded ==
  \A i \in 1..Len(forecastLocals) :
    LET f == forecastLocals[i]
    IN  (f.emit /\ Len(f.validMonths) >= 2) =>
          \A j \in 1..Len(f.pctTransitions) :
            /\ RLe(f.validMonthFloorKwh, EntryKwh(f.pctTransitions[j].prev))
            /\ RLe(f.validMonthFloorKwh, EntryKwh(f.pctTransitions[j].curr))

ScenarioSeries == <<R(100000), R(102000), R(99000), R(5000), R(101000)>>

\* C2 witness: the series [100000, 102000, 99000, 5000, 101000] was forecast,
\* its 5000 month is below the floor, and three changes were retained
C2_Witness ==
  /\ pc = "done"
  /\ [i \in 1..Len(buildingMonthMap[1][2]) |-> buildingMonthMap[1][2][i][2]] = ScenarioSeries
  /\ RLt(R(5000), forecastLocals[1].validMonthFloorKwh)
  /\ Len(forecastLocals[1].pctTransitions) = 3
  /\ buildingPredictions[1].avgMoMChangePct = R(2)

\* ------------------------------------------------------------------------
\* Claims about the derived series (checked under Spec)
\* ------------------------------------------------------------------------

\* The date an hourly entry falls on: the date part of its timestamp
HourlyDate(h) == SubSeq(h.timestamp, 1, 10)

RECURSIVE SumHourlyOn(_, _)
SumHourlyOn(hourly, date) ==
  IF hourly = <<>> THEN 0
  ELSE (IF HourlyDate(hourly[1]) = date THEN hourly[1].totalKwh ELSE 0)
         + SumHourlyOn(Tail(hourly), date)

\* C3: the totalKwh of every daily entry is the sum of the totalKwh of the
\* hourly entries that fall on its date, and every hourly entry falls on the
\* date of exactly one daily entry.
C3_DailyIsSumOfHourly ==
  /\ \A i \in 1..Len(dailyData) :
       dailyData[i].totalKwh = SumHourlyOn(hourlyData, dailyData[i].date)
  /\ \A j \in 1..Len(hourlyData) :
       Cardinality({ i \in 1..Len(dailyData) : dailyData[i].date = HourlyDate(hourlyData[j]) }) = 1

\* C3 witness: a day was emitted that sums two hourly entries with totals
\* rounded up from half kWh readings
C3_Witness ==
  /\ pc = "done"
  /\ \E i \in 1..Len(dailyData) :
       /\ Cardinality({ j \in 1..Len(hourlyData) :
                         HourlyDate(hourlyData[j]) = dailyData[i].date }) = 2
       /\ dailyData[i].totalKwh = 2
  /\ \A k \in 1..Len(hourlyMap) : hourlyMap[k][2].kwh = Rat(1, 2)

\* C4 as stated: in the per-building consumption summaries of either builder,
\* the emitted intensity is 0 whenever the building's area is <= 0.
C4_ZeroIntensityWithoutArea ==
  \A i \in 1..Len(buildingConsumption) :
    RLe(buildingConsumption[i].sqft, RZero) =>
      buildingConsumption[i].intensityKwhPerSqft = RZero

\* C4 witness: a summary with a building without area and one with an area
C4_Witness ==
  /\ pc = "done"
  /\ \E i, j \in 1..Len(buildingConsumption) :
       /\ buildingConsumption[i].sqft = RZero
       /\ RLt(RZero, buildingConsumption[j].sqft)

\* The (year, month) a month key denotes, as one number
MonthIndex(monthKey) ==
  LET parts == SplitDash(monthKey) IN StrToNum(parts[1]) * 12 + StrToNum(parts[2])

\* C5: within the emitted building-month series, the entries of a building
\* have strictly chronologically increasing months.
C5_MonthKeysIncreasing ==
  \A i, j \in 1..Len(buildingMonthlyData) :
    (i < j /\ buildingMonthlyData[i].name = buildingMonthlyData[j].name) =>
      MonthIndex(buildingMonthlyData[i].monthKey) < MonthIndex(buildingMonthlyData[j].monthKey)

\* C5 witness: a building's series was emitted with three months, across a
\* year end, whose rows were ingested latest month first
C5_Witness ==
  /\ pc = "done"
  /\ Len(buildingMonthMap) = 1
  /\ Len(buildingMonthlyData) = 3
  /\ MonthIndex(buildingMonthMap[1][2][3][1]) < MonthIndex(buildingMonthMap[1][2][2][1])
  /\ MonthIndex(buildingMonthMap[1][2][2][1]) < MonthIndex(buildingMonthMap[1][2][1][1])
  /\ MonthLabel(buildingMonthlyData[1].monthKey).year
       < MonthLabel(buildingMonthlyData[3].monthKey).year

\* ------------------------------------------------------------------------
\* Claims about schema validation (checked under SpecValidate)
\* ------------------------------------------------------------------------

\* The required columns of the source that were written in one of the styles
WrittenIn(styles) == { w.name : w \in { x \in writtenColumns : x.style \in styles } }

\* The required columns of the source not among the names, in required order
RequiredNotIn(names) ==
  LET NotThere(c) == c \notin names IN Filter(RequiredOf(source), NotThere)

AnyStyle == { "plain", "bom", "upper", "padded" }

\* The missing columns a returned value reports: none for null, the list of a
\* message, the list itself on the gold path
ReportedMissing ==
  IF source = GoldSource THEN validation[1]
  ELSE IF validation[1] = None THEN <<>> ELSE validation[1][1].missing

\* C6 as stated: for every source, the validator reports exactly the required
\* columns that the header lacks, however the columns present are written
\* (case, byte-order mark), and none when the header lacks none.
C6_ReportsMissingColumns ==
  pc = "validated" => ReportedMissing = RequiredNotIn(WrittenIn(AnyStyle))

\* C6 amended: validateColumns returns null when the header of a CSV source
\* lacks no required column, and otherwise a message naming the source, the
\* columns found and exactly the required columns lacking, names matched in any
\* case after trimming white space and a byte-order mark; validateGoldColumns
\* returns the list of the required columns that no column equals up to case,
\* so a column written behind a byte-order mark or between spaces counts as
\* missing there.
C6_ValidatorsReportMissing ==
  pc = "validated" =>
    IF source = GoldSource
    THEN validation[1] = RequiredNotIn(WrittenIn({ "plain", "upper" }))
    ELSE LET lacking == RequiredNotIn(WrittenIn(AnyStyle))
         IN  IF lacking = <<>> THEN validation[1] = None
             ELSE /\ validation[1] # None
                  /\ validation[1][1].fileName = source
                  /\ validation[1][1].missing = lacking
                  /\ validation[1][1].found = sanitizeColumns(header)

\* C6 witness: the header of the primary source was validated with only
\* grossarea left out, simscode written behind a byte-order mark and utility
\* in upper case: the message names exactly grossarea
C6_Witness ==
  /\ pc = "validated"
  /\ source = "meter_building_weather_merged.csv"
  /\ Len(header) = 9
  /\ header[1][1] = "BOM"
  /\ header[2] = <<"U", "T", "I", "L", "I", "T", "Y">>
  /\ validation[1] # None
  /\ validation[1][1].missing = << <<"g", "r", "o", "s", "s", "a", "r", "e", "a">> >>

\* ------------------------------------------------------------------------
\* Claims about the weather model (checked under SpecModel)
\* ------------------------------------------------------------------------

\* buildWeatherModel has run on a panel with enough usable dates to be fitted
FittedPanel ==
  /\ pc = "fitted"
  /\ Len(weatherEntries) >= MinModelRows

\* The precipitation column of the panel is degenerate: zero on every date
DegeneratePrecipitation ==
  \A i \in 1..Len(weatherEntries) : weatherEntries[i].precipitation = RZero

\* The sum of the importance percentages of a returned model
ImportanceSum(model) ==
  RSum(Tabulate(Len(model.featureImportance), LAMBDA i :
    model.featureImportance[i].importance))

\* The coefficient of every feature is zero
AllCoefficientsZero(model) ==
  /\ model.coefficients.temperature = RZero
  /\ model.coefficients.precipitation = RZero
  /\ model.coefficients.windSpeed = RZero

\* C7 as stated: when the precipitation column of the fitted panel is
\* degenerate (zero on every date), buildWeatherModel returns null.
C7_DegenerateReturnsNull ==
  (FittedPanel /\ DegeneratePrecipitation) => weatherModel = None

\* C7 amended: when the precipitation column of the fitted panel is
\* degenerate (zero on every date), buildWeatherModel still returns a model,
\* in which the coefficient and the importance of precipitation are 0.
C7_DegenerateFitsZeroCoefficient ==
  (FittedPanel /\ DegeneratePrecipitation) =>
    /\ weatherModel # None
    /\ weatherModel[1].coefficients.precipitation = RZero
    /\ \A i \in 1..Len(weatherModel[1].featureImportance) :
         weatherModel[1].featureImportance[i].feature = "Precipitation" =>
           weatherModel[1].featureImportance[i].importance = RZero

\* C7 witness: a panel of ten dates without precipitation was fitted and the
\* model returned has a temperature coefficient other than 0
C7_Witness ==
  /\ FittedPanel
  /\ DegeneratePrecipitation
  /\ weatherModel # None
  /\ weatherModel[1].coefficients.temperature # RZero

\* C8 as stated: whenever buildWeatherModel returns a model, the importance
\* percentages of its three features sum to 100 up to rounding (each of the
\* three is rounded to 0.01, so the sum is within 0.01 of 100).
C8_ImportanceSumsTo100 ==
  (pc = "fitted" /\ weatherModel # None) =>
    /\ Len(weatherModel[1].featureImportance) = 3
    /\ RLe(RAbs(RSub(ImportanceSum(weatherModel[1]), R(100))), Rat(1, 100))

\* C8 witness: a model was returned whose three coefficients are not all 0,
\* and one whose importances are three different non-zero percentages
C8_Witness ==
  /\ pc = "fitted"
  /\ weatherModel # None
  /\ ~AllCoefficientsZero(weatherModel[1])
  /\ RLt(weatherModel[1].featureImportance[2].importance,
         weatherModel[1].featureImportance[1].importance)
  /\ RLt(weatherModel[1].featureImportance[3].importance,
         weatherModel[1].featureImportance[2].importance)
  /\ RLt(RZero, weatherModel[1].featureImportance[3].importance)

\* C9 as stated: whenever buildWeatherModel returns a model, its r2 lies in
\* [0, 1].
C9_R2InUnitInterval ==
  (pc = "fitted" /\ weatherModel # None) =>
    /\ RLe(RZero, weatherModel[1].r2)
    /\ RLe(weatherModel[1].r2, ROne)

\* C9 witness: a model was returned whose r2 lies strictly between 0 and 1
\* and whose predictions are not all the same
C9_Witness ==
  /\ pc = "fitted"
  /\ weatherModel # None
  /\ RLt(RZero, weatherModel[1].r2)
  /\ RLt(weatherModel[1].r2, ROne)
  /\ \E i, j \in 1..Len(weatherModel[1].predictions) :
       weatherModel[1].predictions[i].predicted # weatherModel[1].predictions[j].predicted

\* ------------------------------------------------------------------------
\* Claims about the weather correlation KPI (checked under SpecCorr)
\* ------------------------------------------------------------------------

\* The days of dailyData with a temperature (avgTemperature other than 0)
DaysWithTemperature == { i \in 1..Len(dailyData) : dailyData[i].avgTemperature # RZero }

\* C10: the weather correlation KPI lies in [-1, 1], and is 0 when fewer than
\* 3 days have a temperature or when the temperatures, or the totals, of the
\* days with a temperature are all the same.
C10_CorrelationInRange ==
  pc = "done" =>
    /\ RLe(R(-1), weatherCorrelation)
    /\ RLe(weatherCorrelation, ROne)
    /\ Cardinality(DaysWithTemperature) < 3 => weatherCorrelation = RZero
    /\ (\A i, j \in DaysWithTemperature :
          dailyData[i].avgTemperature = dailyData[j].avgTemperature) =>
         weatherCorrelation = RZero
    /\ (\A i, j \in DaysWithTemperature :
          dailyData[i].totalKwh = dailyData[j].totalKwh) =>
         weatherCorrelation = RZero

\* C10 witness: the KPI was computed over three days with a temperature and
\* one without, and lies strictly between -1 and 0
C10_Witness ==
  /\ pc = "done"
  /\ Cardinality(DaysWithTemperature) = 3
  /\ Len(dailyData) = 4
  /\ RLt(R(-1), weatherCorrelation)
  /\ RLt(weatherCorrelation, RZero)

\* ------------------------------------------------------------------------
\* Claims about the step handler (checked under Spec)
\* ------------------------------------------------------------------------

\* The utility label of the row matches electricity: it contains ELEC,
\* whatever the case
HasElectricityLabel(row) == Includes(ToUpperCase(Trim(row.utility)), ElecToken)

\* The total of a utility in a month, 0 where the map has none
UtilityTotal(map, utility, monthKey) ==
  IF MapHas(map, utility) /\ MapHas(MapGet(map, utility), monthKey)
  THEN MapGet(MapGet(map, utility), monthKey).total ELSE RZero

\* The step handler ran on the row in this step
Streamed(row) == pc = "stream" /\ pc' = "stream" /\ StepRow(row)

\* C16: a row whose utility label does not match electricity leaves the
\* hour, daily-weather, per-building, building-month and building-day
\* aggregates and the building registry unchanged, and every row with a
\* utility label and a valid timestamp, electricity or not, adds its reading
\* to the monthly total of its utility.
C16_OnlyElectricityFeedsAggregates ==
  [][\A row \in Rows :
       Streamed(row) =>
         /\ ~HasElectricityLabel(row) =>
              UNCHANGED <<hourlyMap, dailyWeatherMap, buildingStatsMap, buildingMonthMap,
                          bwMap, siteMap>>
         /\ (Trim(row.utility) # <<>> /\ row.readingtime # None) =>
              UtilityTotal(utilityMonthAggMap', Trim(row.utility),
                           LocalMonthKey(row.readingtime[1], tzOffset))
                = RAdd(UtilityTotal(utilityMonthAggMap, Trim(row.utility),
                                    LocalMonthKey(row.readingtime[1], tzOffset)),
                       row.readingwindowsum)]_vars

\* C16 witness: an electricity row and a steam row were streamed; the steam
\* row is in the utility totals with its reading of 2 and its unit, and only
\* the electricity row is in the hour and building-day aggregates
C16_Witness ==
  /\ pc = "stream"
  /\ rowCount = 2
  /\ elecRowCount = 1
  /\ MapHas(utilityMonthAggMap, SteamLabel)
  /\ MapHas(utilityMonthAggMap, ElectricityLabel)
  /\ \E k \in 1..Len(MapGet(utilityMonthAggMap, SteamLabel)) :
       MapGet(utilityMonthAggMap, SteamLabel)[k][2] = [total |-> R(2), unit |-> SteamUnit]
  /\ Len(hourlyMap) = 1
  /\ hourlyMap[1][2].kwh = Rat(1, 2)
  /\ Len(bwMap) = 1

\* C17: a row whose timestamp is blank or unparseable increments the total
\* row count by one and changes no time-keyed aggregate (hour, day,
\* building-month, building-day, utility-month) and no electricity row count.
C17_UndatedRowOnlyCounted ==
  [][\A row \in Rows :
       (Streamed(row) /\ row.readingtime = None) =>
         /\ rowCount' = rowCount + 1
         /\ UNCHANGED <<hourlyMap, dailyWeatherMap, buildingMonthMap, bwMap,
                        utilityMonthAggMap, elecRowCount>>]_vars

\* C17 witness: an electricity row and then a row labelled electric whose
\* readingtime is no date were streamed; the second is counted and sampled
\* and is in no aggregate
C17_Witness ==
  /\ pc = "stream"
  /\ rowCount = 2
  /\ elecRowCount = 1
  /\ utilitySamples = <<ElectricityLabel, ElectricLabel>>
  /\ ~MapHas(utilityMonthAggMap, ElectricLabel)
  /\ Len(hourlyMap) = 1
  /\ Len(bwMap) = 1

\* ------------------------------------------------------------------------
\* Claims about the end of the run (checked under Spec)
\* ------------------------------------------------------------------------

\* The run has ended, with a result or with an error
Ended == pc \in {"done", "error"}

\* No field of the result is set
NoResult == EmptyOut /\ weatherModel = None /\ weatherEntries = <<>>

\* C13: if the full pass over the source used finds zero electricity rows,
\* the run fails with an error that lists the utility label samples observed
\* and returns no result; a result is never produced from an empty
\* electricity series.
C13_NoElectricityRowsFails ==
  /\ (Ended /\ elecRowCount = 0) =>
       /\ pc = "error"
       /\ runError # None
       /\ runError[1].source = primarySource
       /\ runError[1].samples = utilitySamples
       /\ NoResult
  /\ pc = "done" => (elecRowCount > 0 /\ hourlyData # <<>> /\ runError = None)

\* C13 witness: a steam row and a row labelled electric without a date were
\* streamed, and the run failed listing both labels
C13_Witness ==
  /\ pc = "error"
  /\ rowCount = 3
  /\ elecRowCount = 0
  /\ utilitySamples = <<SteamLabel, ElectricLabel>>
  /\ runError # None
  /\ runError[1].samples = <<SteamLabel, ElectricLabel>>

\* Every output of the result beside the weather model is present
OutputsPresent ==
  /\ buildings # <<>>
  /\ hourlyData # <<>>
  /\ dailyData # <<>>
  /\ buildingConsumption # <<>>
  /\ buildingMonthlyData # <<>>
  /\ forecastLocals # <<>>

InPass == pc = "stream" /\ pc' = "stream"

\* C19 as stated: each aggregation structure (hour, daily-weather,
\* per-building, building-month, utility-month, building-day maps) is written
\* only by the streaming pass that builds it and is never modified after that
\* pass completes.
C19_MapsWrittenOnlyByPass ==
  [][~InPass => UNCHANGED <<hourlyMap, dailyWeatherMap, buildingStatsMap, buildingMonthMap,
                            utilityMonthAggMap, bwMap>>]_vars

\* The dates of the rows of weather_daily_selected.csv
WeatherDailyDates ==
  { IsoDateKey(WeatherDailyRows[i].date[1]) :
    i \in { j \in 1..Len(WeatherDailyRows) : WeatherDailyRows[j].date # None } }

\* The date had neither precipitation nor wind in the map
WithoutWeather(map, dateKey) ==
  ~MapHas(map, dateKey)
  \/ (MapGet(map, dateKey).precipCount = 0 /\ MapGet(map, dateKey).windCount = 0)

\* C19 amended: the hour, per-building, building-month, utility-month and
\* building-day maps are written only by the streaming pass; the daily-weather
\* map is written by the pass and, once the pass has completed, by the
\* supplement loop of the same run, which only sets dates of
\* weather_daily_selected.csv that the pass left without precipitation and
\* wind; the outputs that read the maps are derived only by the step that
\* ends the pass.
C19_OnlySupplementWritesAfterPass ==
  [][~InPass =>
       /\ UNCHANGED <<hourlyMap, buildingStatsMap, buildingMonthMap, utilityMonthAggMap, bwMap>>
       /\ dailyWeatherMap' # dailyWeatherMap => (pc = "stream" /\ pc' = "done")
       /\ \A i \in 1..Len(dailyWeatherMap') :
            (~MapHas(dailyWeatherMap, dailyWeatherMap'[i][1])
             \/ dailyWeatherMap'[i][2] # MapGet(dailyWeatherMap, dailyWeatherMap'[i][1]))
              => (/\ dailyWeatherMap'[i][1] \in WeatherDailyDates
                  /\ WithoutWeather(dailyWeatherMap, dailyWeatherMap'[i][1]))
       /\ \A i \in 1..Len(dailyWeatherMap) : MapHas(dailyWeatherMap', dailyWeatherMap[i][1])
       /\ outVars' # outVars => (pc = "stream" /\ pc' = "done")]_vars

\* C19 witness: the run completed and the supplement set the weather of
\* 2025-01-01, a date whose only reading had neither precipitation nor wind
C19_Witness ==
  /\ pc = "done"
  /\ elecRowCount = 1
  /\ Len(hourlyMap) = 1
  /\ Len(bwMap) = 1
  /\ Len(dailyWeatherMap) = 1
  /\ dailyWeatherMap[1][2] = [precipSum |-> Rat(3, 4), precipCount |-> 1,
                              windSum |-> R(6), windCount |-> 1]
  /\ Len(dailyData) = 1
  /\ dailyData[1].avgPrecipitation = Rat(3, 4)

\* ------------------------------------------------------------------------
\* Claims about the reads of a run (checked under SpecRun)
\* ------------------------------------------------------------------------

\* The positions of the history of reads
ReadIndex == 1..Len(reads)

\* The file whose rows the completed run aggregated
AggregatedFile == reads[Len(reads)].file

\* C11: schema validation always precedes streaming: the row-by-row pass over
\* a source begins only after that source's header has been read and has
\* passed column validation, and a source with missing required columns ends
\* the run with a schema error before any full-file parse has started.
C11_ValidationPrecedesStreaming ==
  /\ \A k \in ReadIndex :
       reads[k].pass = "stream" =>
         \E j \in 1..(k - 1) : reads[j] = Read(reads[k].file, "header", "ok")
  /\ \A j \in ReadIndex :
       (reads[j].pass = "header" /\ reads[j].outcome = "schema") =>
         (j = Len(reads) /\ pc = "error" /\ runError # None)

\* C11 witness: the header read of the weather-merged file failed, and the
\* run completed on the rows streamed from that file
C11_Witness ==
  /\ pc = "done"
  /\ \E j \in ReadIndex : reads[j] = Read(PrimaryFile, "header", "failed")
  /\ reads[Len(reads)] = Read(PrimaryFile, "stream", "ok")
  /\ elecRowCount > 0
  /\ hourlyData # <<>>

\* C12: whenever the primary source cannot be read and the run builds its
\* aggregates from meter_building_merged.csv, a degradation notice is logged
\* in that run, and what the run records as the source used is the source
\* whose rows were aggregated.
C12_FallbackIsNoticed ==
  pc = "done" =>
    /\ AggregatedFile = SecondaryFile => warnings # <<>>
    /\ primarySource = AggregatedFile
    /\ \A i \in 1..Len(warnings) : warnings[i].using = AggregatedFile
    /\ info # None
    /\ (info[1].meterBuildingWeather.rowCount # -1) <=> (AggregatedFile = PrimaryFile)

\* C12 witness: every header passed, the stream of the weather-merged file
\* failed on a read issue, and the run completed on meter_building_merged.csv
\* without a notice
C12_Witness ==
  /\ pc = "done"
  /\ weatherHeaderReadIssue = None
  /\ \E j \in ReadIndex : reads[j] = Read(PrimaryFile, "stream", "failed")
  /\ reads[Len(reads)] = Read(SecondaryFile, "stream", "ok")
  /\ primarySource = SecondaryFile
  /\ warnings = <<>>
  /\ elecRowCount > 0

\* The read is the stream of the primary source that the one fallback follows
IsFallbackPoint(j) ==
  /\ reads[j] = Read(PrimaryFile, "stream", "failed")
  /\ \A k \in (j + 1)..Len(reads) :
       reads[k].file = SecondaryFile /\ reads[k].pass = "stream"

\* C14: every run ends either with a complete result or with an error and no
\* result: a failed read at any stage aborts the run, the only automatic
\* recovery is one fallback from the primary to the secondary source,
\* attempted at most once per run, and no source is read again after a read
\* of it has failed.
C14_FailedReadAborts ==
  /\ pc = "done" => (runError = None /\ info # None /\ hourlyData # <<>>)
  /\ pc = "error" => (runError # None /\ info = None /\ NoResult)
  /\ \A j \in ReadIndex :
       reads[j].outcome = "failed" =>
         ((j = Len(reads) /\ pc = "error") \/ IsFallbackPoint(j))
  /\ Cardinality({ k \in ReadIndex : reads[k].file = SecondaryFile /\ reads[k].pass = "stream" })
       <= 1
  /\ \A j \in ReadIndex : \A k \in (j + 1)..Len(reads) :
       reads[j].outcome = "failed" => reads[k].file # reads[j].file

\* C14 witness: the header read of the weather-merged file failed, the loop
\* went on to the next header, and the weather-merged file was read again
C14_Witness ==
  \E j \in ReadIndex : \E k \in ReadIndex :
    /\ reads[j] = Read(PrimaryFile, "header", "failed")
    /\ j < k
    /\ reads[j + 1] = Read("building_metadata_selected.csv", "header", "ok")
    /\ reads[k].file = PrimaryFile
    /\ reads[k].pass = "stream"

\* ------------------------------------------------------------------------
\* Claims about the stages of the weather-model pipeline (checked under
\* SpecModel)
\* ------------------------------------------------------------------------

\* What each stage leaves of the panel handed to buildWeatherModel
UsableStage == UsableEntries(weatherEntries)

DatesStage ==
  CHOOSE rows \in
    { DailyRows(dailyAgg) : dailyAgg \in { DailyAgg(usable) : usable \in {UsableStage} } } :
    TRUE

CoveredStage == CHOOSE covered \in { CoverageFiltered(rows) : rows \in {DatesStage} } : TRUE

CompleteStage ==
  CHOOSE complete \in { CompletenessFiltered(covered) : covered \in {CoveredStage} } : TRUE

OutlierStage ==
  CHOOSE filtered \in { OutlierFiltered(complete) : complete \in {CompleteStage} } : TRUE

\* The usability and preference filters or the daily aggregation left fewer
\* than 10 rows
FewEntriesOrDates == Len(UsableStage) < 10 \/ Len(DatesStage) < 10

\* The coverage filter, the completeness filter or the outlier trim left
\* fewer than 10 rows
FewAfterFilter ==
  \/ Len(CoverageKept(DatesStage)) < 10
  \/ Len(CompletenessKept(CoveredStage)) < 10
  \/ Len(OutlierKept(CompleteStage)) < 10

\* C18 as stated: every stage (usability filter, preference filter, daily
\* aggregation, coverage filter, completeness filter, outlier trim) that
\* leaves fewer than 10 rows aborts the fit, and the model returned is null.
C18_EveryStageAborts ==
  (pc = "fitted" /\ (FewEntriesOrDates \/ FewAfterFilter)) => weatherModel = None

\* C18 amended: the fit is aborted, and null returned, exactly when the
\* usability and preference filters leave fewer than 10 entries or the daily
\* aggregation fewer than 10 dates; a coverage filter, completeness filter or
\* outlier trim that would leave fewer than 10 rows is skipped and its
\* input is kept, so no model is fitted on fewer than 10 rows.
C18_OnlyEntriesAndDatesAbort ==
  pc = "fitted" =>
    /\ FewEntriesOrDates <=> weatherModel = None
    /\ ~FewEntriesOrDates =>
         /\ modelLocals.fitted
         /\ modelLocals.rows = OutlierStage
         /\ Len(modelLocals.rows) >= 10
         /\ Len(CoverageKept(DatesStage)) < 10 => CoveredStage = DatesStage
         /\ Len(CompletenessKept(CoveredStage)) < 10 => CompleteStage = CoveredStage
         /\ Len(OutlierKept(CompleteStage)) < 10 => OutlierStage = CompleteStage

\* C18 witness: on a panel of ten dates the completeness filter leaves no
\* row, all daily totals being below 10,000; the filter is skipped and a
\* model is fitted on the ten dates
C18_Witness ==
  /\ pc = "fitted"
  /\ Len(DatesStage) = 10
  /\ Len(CoverageKept(DatesStage)) = 10
  /\ CompletenessKept(CoveredStage) = <<>>
  /\ weatherModel # None
  /\ Len(modelLocals.rows) = 10

\* ------------------------------------------------------------------------
\* Claims about two calls side by side (checked under SpecTwo)
\* ------------------------------------------------------------------------

\* The maps after a call streamed the rows alone
RECURSIVE StreamedAlone(_, _)
StreamedAlone(rows, offset) ==
  IF rows = <<>> THEN EmptyPrimary
  ELSE PrimaryAfter(StreamedAlone(SubSeq(rows, 1, Len(rows) - 1), offset),
                    rows[Len(rows)], offset)

\* C20: two pipeline invocations share no aggregation state: for any
\* interleaving of two runs at their suspension points, each run's result
\* equals the result of running it alone on its own inputs.
C20_RunsAreIndependent ==
  /\ \A i \in RunIds :
       invocations[i].at = "returned" =>
         invocations[i].result = Some(ResultOf(StreamedAlone(invocations[i].rows, tzOffset),
                                               tzOffset))
  /\ \A i \in RunIds : \A j \in RunIds :
       (i # j /\ invocations[i].primary # 0) => invocations[i].primary # invocations[j].primary

\* C20 witness: both calls returned; the second started and streamed a row
\* before the first streamed its row towards a different result
C20_Witness ==
  /\ invocations[1].at = "returned"
  /\ invocations[2].at = "returned"
  /\ invocations[1].primary = 2
  /\ invocations[2].primary = 1
  /\ Len(invocations[1].rows) = 2
  /\ Len(invocations[2].rows) = 2
  /\ invocations[1].result[1].error = None
  /\ invocations[2].result[1].error # None
  /\ primaries[1].rowCount = 2
  /\ primaries[2].elecRowCount = 2

\* ------------------------------------------------------------------------
\* SpecSites: the building registry.  Rows of a few buildings are streamed,
\* with areas and codes that differ from row to row, and the registry is then
\* merged with the metadata and classified (parseAllCsvFiles, buildings; the
\* other outputs are those of Finish)
\* ------------------------------------------------------------------------

MaxSiteRows == 3

SiteReading == Some(UtcInstant(2025, 1, 1, 0, 10))

\* The buildings whose rows carry different areas and codes
VaryingNames == { <<"H", "a", "l", "l">>, <<"L", "a", "b">> }

\* An area cell and the code cell that comes with it; the first area is blank
SiteCells ==
  { [grossarea |-> None, simscode |-> <<>>],
    [grossarea |-> R(200), simscode |-> <<"0", "7">>],
    [grossarea |-> R(500), simscode |-> <<"0", "9">>] }

\* Buildings read with a blank area; their names match no, one or several
\* of the patterns
OtherNames ==
  { <<"P", "o", "w", "e", "r", " ", "L", "a", "b">>,
    <<"D", "o", "r", "m", " ", "G", "y", "m">>,
    <<"I", "c", "e", " ", "L", "a", "b">>,
    <<"O", "f", "f", "i", "c", "e">>,
    <<"G", "O", "L", "F">> }

SiteRow(utility, readingtime, buildingname, cells) ==
  [utility |-> utility, readingtime |-> readingtime, buildingname |-> buildingname,
   readingwindowsum |-> ROne, temperature_2m |-> R(2), precipitation |-> RZero,
   wind_speed_10m |-> R(8), readingunitsdisplay |-> <<>>, readingunits |-> <<>>,
   grossarea |-> cells.grossarea, simscode |-> cells.simscode]

\* Electricity rows, a steam row and an electricity row without a date
SiteRows ==
  { SiteRow(ElectricityLabel, SiteReading, b, c) : b \in VaryingNames, c \in SiteCells }
    \cup { SiteRow(ElectricityLabel, SiteReading, b, [grossarea |-> None, simscode |-> <<>>]) :
           b \in OtherNames }
    \cup { SiteRow(SteamLabel, SiteReading, <<"H", "a", "l", "l">>,
                   [grossarea |-> R(900), simscode |-> <<"1", "1">>]),
           SiteRow(ElectricLabel, None, <<"L", "a", "b">>,
                   [grossarea |-> R(700), simscode |-> <<"1", "3">>]) }

\* The rows of building_metadata_selected.csv: areas for Hall, Lab and Power
\* Lab, a zero area for Office, and a row without a name
SiteMetaRows ==
  << [buildingname |-> <<"H", "a", "l", "l">>, grossarea |-> R(999)],
     [buildingname |-> <<"L", "a", "b">>, grossarea |-> R(888)],
     [buildingname |-> <<"P", "o", "w", "e", "r", " ", "L", "a", "b">>, grossarea |-> R(300)],
     [buildingname |-> <<"O", "f", "f", "i", "c", "e">>, grossarea |-> None],
     [buildingname |-> <<" ">>, grossarea |-> R(100)] >>

SitesInit ==
  /\ pc = "sites"
  /\ tzOffset = 0
  /\ EmptyTwo
  /\ EmptyStream
  /\ EmptySide
  /\ EmptyOut

\* The step handler of parsePrimaryCsv on one row
SitesStep ==
  /\ pc = "sites"
  /\ rowCount < MaxSiteRows
  /\ \E row \in SiteRows : StepRow(row)
  /\ UNCHANGED <<pc, tzOffset, twoVars, sideVars, outVars>>

\* metaMap and buildings of parseAllCsvFiles
SitesBuild ==
  /\ pc = "sites"
  /\ elecRowCount # 0
  /\ pc' = "built"
  /\ buildings' = Buildings(siteMap, MetaMap(SiteMetaRows))
  /\ UNCHANGED <<tzOffset, twoVars, streamVars, sideVars, hourlyData, dailyData,
                 buildingConsumption, buildingMonthlyData, buildingMoMChanges, forecastLocals,
                 buildingPredictions, weatherCorrelation>>

SitesNext == SitesStep \/ SitesBuild

SpecSites == SitesInit /\ [][SitesNext]_vars

\* ------------------------------------------------------------------------
\* SpecSamples: a primary source without electricity rows, whose rows carry
\* many utility labels; the run ends with the error that lists the samples
\* ------------------------------------------------------------------------

MaxSampleRows == 27

\* The k-th label: U1, U2, ...
SampleLabel(k) == <<"U">> \o NumToStr(k)

\* A row with the label: it has a date and a blank reading
SampleRow(utility) ==
  [utility |-> utility, readingtime |-> Some(UtcInstant(2025, 1, 1, 0, 10)),
   buildingname |-> <<"H", "a", "l", "l">>, readingwindowsum |-> None,
   temperature_2m |-> None, precipitation |-> None, wind_speed_10m |-> None,
   readingunitsdisplay |-> <<>>, readingunits |-> <<>>,
   grossarea |-> None, simscode |-> <<>>]

\* The rows that may come after n labels were sampled: one with the next
\* label (between blanks, which toStr trims), one with the first label again,
\* and one without a label
SampleRows(n) ==
  { SampleRow(<<" ">> \o SampleLabel(n + 1) \o <<" ">>), SampleRow(SampleLabel(1)),
    SampleRow(<<" ">>) }

SamplesInit ==
  /\ pc = "stream"
  /\ tzOffset = 0
  /\ EmptyTwo
  /\ EmptyStream
  /\ EmptySide
  /\ EmptyOut

\* The step handler of parsePrimaryCsv on one row
SamplesStep ==
  /\ pc = "stream"
  /\ rowCount < MaxSampleRows
  /\ \E row \in SampleRows(Len(utilitySamples)) : StepRow(row)
  /\ UNCHANGED <<pc, tzOffset, twoVars, sideVars, outVars>>

SamplesNext == SamplesStep \/ Fail

SpecSamples == SamplesInit /\ [][SamplesNext]_vars

\* ------------------------------------------------------------------------
\* Claims about the point estimates of a fitted model
\* ------------------------------------------------------------------------

\* The point estimates a returned model carries: the fitted predictions, the
\* marginal-effect curve, the two scenario values and the heatmap cells
PointEstimates(model) ==
  { model.predictions[i].predicted : i \in 1..Len(model.predictions) }
    \cup { model.marginalEffect[i].predicted : i \in 1..Len(model.marginalEffect) }
    \cup { model.scenarioComparison[i].predicted : i \in 1..Len(model.scenarioComparison) }
    \cup { model.heatmapData[i].predicted : i \in 1..Len(model.heatmapData) }

\* max(1.25 x the 99th percentile, 1.1 x the maximum) of the daily totals
\* the model was fitted on
ObservedCap(rows) ==
  RMax(RMul(quantile(Kwhs(rows), Rat(99, 100)), Rat(5, 4)),
       RMul(MaxOf(Kwhs(rows)), Rat(11, 10)))

SiteStreamed(row) == pc = "sites" /\ pc' = "sites" /\ StepRow(row)

\* The entry the row would create: its area and its code
EntryOfRow(row) == [grossarea |-> toNum(row.grossarea), code |-> toStr(row.simscode)]

\* The areas the metadata source holds for the name
MetaAreas(name) ==
  { toNum(SiteMetaRows[k].grossarea) :
    k \in { j \in 1..Len(SiteMetaRows) : toStr(SiteMetaRows[j].buildingname) = name } }

\* Every entry of the registry is still there, unchanged, after the step
EntriesKept ==
  /\ Len(siteMap') >= Len(siteMap)
  /\ \A i \in 1..Len(siteMap) : siteMap'[i] = siteMap[i]

\* The registry entry of a name is created by the first accepted electricity
\* row of the name, with that row's area and code, and by no other row
CreatedByFirstRow(row) ==
  IF PassesGate(row) /\ toStr(row.buildingname) # <<>>
       /\ ~MapHas(siteMap, toStr(row.buildingname))
  THEN siteMap' = Append(siteMap, <<toStr(row.buildingname), EntryOfRow(row)>>)
  ELSE siteMap' = siteMap

\* The area of an emitted building: the registry's where it is not zero, the
\* metadata's (or 0 without metadata) only where it is
AreaMerged(i) ==
  /\ buildings[i].name = siteMap[i][1]
  /\ IF siteMap[i][2].grossarea # RZero
     THEN buildings[i].sqft = siteMap[i][2].grossarea
     ELSE buildings[i].sqft \in
            (IF MetaAreas(siteMap[i][1]) = {} THEN {RZero} ELSE MetaAreas(siteMap[i][1]))

\* C22: the registry entry of a building name is created by the first
\* electricity row seen for that name, with that row's area and code; no later
\* row changes the entry's area or code; and the metadata source's area is
\* used for the building only when the area taken from the primary source is
\* zero.
C22_RegistryKeepsFirstRow ==
  /\ [][\A row \in SiteRows :
          SiteStreamed(row) => (CreatedByFirstRow(row) /\ EntriesKept)]_vars
  /\ [](pc = "built" =>
          /\ Len(buildings) = Len(siteMap)
          /\ \A i \in 1..Len(siteMap) : AreaMerged(i))

\* Hall was first read with the area 200 and keeps it though the metadata
\* holds 999; Lab was first read with a blank area and takes the metadata's
\* 888; a third electricity row was read after the entries were created
C22_Witness ==
  /\ pc = "built"
  /\ elecRowCount = 3
  /\ Len(buildings) = 2
  /\ \E i, j \in 1..Len(buildings) :
       /\ buildings[i].name = <<"H", "a", "l", "l">>
       /\ siteMap[i][2] = [grossarea |-> R(200), code |-> <<"0", "7">>]
       /\ buildings[i].sqft = R(200)
       /\ buildings[j].name = <<"L", "a", "b">>
       /\ siteMap[j][2].grossarea = RZero
       /\ buildings[j].sqft = R(888)

\* The categories in the order their patterns are tested, each with the
\* alternatives of its pattern
CategoryOrder ==
  << <<"Utility", UtilityPatterns>>, <<"Labs", LabsPatterns>>,
     <<"Residential", ResidentialPatterns>>, <<"Athletics", AthleticsPatterns>> >>

\* The lower-cased name contains an alternative of the k-th category
MatchesCategory(lower, k) ==
  \E i \in 1..Len(CategoryOrder[k][2]) : Includes(lower, CategoryOrder[k][2][i])

\* The categories whose pattern the name matches, whatever its letter case
MatchedCategories(name) ==
  CHOOSE matched \in
    { { k \in 1..Len(CategoryOrder) : MatchesCategory(lower, k) } :
      lower \in {ToLowerCase(name)} } : TRUE

\* The type is that of the earliest of the matched categories, or Academic
\* where none is matched
IsFirstOf(type, matched) ==
  IF matched = {} THEN type = "Academic"
  ELSE \E k \in matched : (\A l \in matched : k <= l) /\ type = CategoryOrder[k][1]

\* C23: every building name is classified into exactly one of Utility, Labs,
\* Residential, Athletics, Academic; when a name matches the patterns of
\* several categories the earliest category in the order Utility, Labs,
\* Residential, Athletics wins; a name matching none is Academic.
C23_FirstMatchingCategoryWins ==
  pc = "built" =>
    \A i \in 1..Len(buildings) :
      /\ buildings[i].type \in {"Utility", "Labs", "Residential", "Athletics", "Academic"}
      /\ \E matched \in {MatchedCategories(buildings[i].name)} :
           IsFirstOf(buildings[i].type, matched)

\* A registry with a name that matches the patterns of Utility and of Labs, a
\* name that matches those of Labs and of Athletics, and a name that matches
\* none
C23_Witness ==
  /\ pc = "built"
  /\ \E i, j, k \in 1..Len(buildings) :
       /\ MatchedCategories(buildings[i].name) = {1, 2}
       /\ buildings[i].type = "Utility"
       /\ MatchedCategories(buildings[j].name) = {2, 4}
       /\ buildings[j].type = "Labs"
       /\ MatchedCategories(buildings[k].name) = {}
       /\ buildings[k].type = "Academic"

\* ------------------------------------------------------------------------
\* Claims about the effective series and the growth rate of a forecast
\* ------------------------------------------------------------------------

\* The months of a building in chronological order
Chronological(months) == SortBy(months, EntryKeyLt)

\* The months with a positive value, of the months in chronological order
PositiveMonths(sorted) == SelectSeq(sorted, LAMBDA e : RLt(RZero, e[2]))

\* max(10,000, 20% of the median of the last 6 values)
FloorOver(values) == RMax(R(10000), RMul(median(LastN(values, 6)), Rat(1, 5)))

\* The validity floor: over the last 6 positive values
ValidityFloor(sorted) == FloorOver(SeqMap(PositiveMonths(sorted), EntryKwh))

\* The months at or above the validity floor
MonthsAtFloor(sorted) ==
  CHOOSE kept \in
    { SelectSeq(sorted, LAMBDA e : RLe(floor, e[2])) :
      floor \in {ValidityFloor(sorted)} } : TRUE

\* The months at or above the floor, or all positive months if fewer than 2
\* are
AtFloorOrPositive(sorted) ==
  CHOOSE series \in
    { IF Len(atFloor) >= 2 THEN atFloor ELSE PositiveMonths(sorted) :
      atFloor \in {MonthsAtFloor(sorted)} } : TRUE

\* The effective series of the months of a building
EffectiveSeries(months) ==
  CHOOSE series \in
    { AtFloorOrPositive(sorted) : sorted \in {Chronological(months)} } : TRUE

\* The forecast f of the months: emitted exactly if the series has at least 2
\* months, over that series, whose months are positive
ForecastOverSeries(f, series) ==
  /\ f.emit <=> Len(series) >= 2
  /\ f.emit =>
       /\ f.effectiveMonths = series
       /\ \A j \in 1..Len(series) : RLt(RZero, series[j][2])

\* C24: the effective series of the forecaster is the months at or above the
\* validity floor, or all months with a positive value if fewer than 2 months
\* are at or above it; a forecast is emitted if and only if the effective
\* series has at least 2 months, and every effective month has a positive
\* value.
C24_EffectiveSeriesDecidesForecast ==
  \A i \in 1..Len(forecastLocals) :
    \E series \in {EffectiveSeries(buildingMonthMap[i][2])} :
      /\ ForecastOverSeries(forecastLocals[i], series)
      /\ Len(buildingPredictions) = (IF Len(series) >= 2 THEN 1 ELSE 0)

\* A forecast over the positive months of a series of which fewer than 2
\* months are at or above the floor, one month being zero
C24_Witness ==
  /\ pc = "done"
  /\ Len(buildingPredictions) = 1
  /\ Len(MonthsAtFloor(Chronological(buildingMonthMap[1][2]))) < 2
  /\ Len(forecastLocals[1].effectiveMonths) >= 2
  /\ Len(forecastLocals[1].effectiveMonths) < Len(buildingMonthMap[1][2])

\* The percentage change from the month before the i-th effective month
ChangeInto(series, i) == RDiv(RSub(series[i][2], series[i - 1][2]), series[i - 1][2])

\* The percentage changes between consecutive effective months whose prior
\* month is at or above the floor and whose magnitude is at most 40%, in the
\* order of the months
RetainedChangesAbove(series, floor) ==
  LET F[i \in 1..Len(series)] ==
        IF i = 1 THEN <<>>
        ELSE IF RLe(floor, series[i - 1][2])
                /\ \E change \in {ChangeInto(series, i)} : RLe(RAbs(change), Rat(40, 100))
             THEN Append(F[i - 1], ChangeInto(series, i))
             ELSE F[i - 1]
  IN  F[Len(series)]

\* The floor is recomputed over the last 6 effective months
RetainedChanges(series) ==
  CHOOSE changes \in
    { RetainedChangesAbove(series, floor) :
      floor \in {FloorOver(SeqMap(series, EntryKwh))} } : TRUE

\* The k-th smallest of the values
KthSmallest(values, k) ==
  CHOOSE x \in { values[i] : i \in DOMAIN values } :
    /\ Cardinality({ i \in DOMAIN values : RLt(values[i], x) }) < k
    /\ Cardinality({ i \in DOMAIN values : RLe(values[i], x) }) >= k

\* m is the median of the values: the middle one, the mean of the two middle
\* ones, or 0 where there is none
IsMedianOf(m, values) ==
  IF Len(values) = 0 THEN m = RZero
  ELSE IF Len(values) % 2 = 1 THEN m = KthSmallest(values, (Len(values) + 1) \div 2)
  ELSE m = RDiv(RAdd(KthSmallest(values, Len(values) \div 2),
                     KthSmallest(values, Len(values) \div 2 + 1)), R(2))

\* C25: the robust growth rate of a forecast is the median of exactly those
\* percentage changes between consecutive effective months whose prior month
\* is at or above the recomputed floor and whose magnitude is at most 40%;
\* the reported growth rate lies in [-40%, +40%].
C25_GrowthIsMedianOfRetainedChanges ==
  /\ \A i \in 1..Len(forecastLocals) :
       forecastLocals[i].emit =>
         /\ SeqMap(forecastLocals[i].pctTransitions, PctOf)
              = RetainedChanges(forecastLocals[i].effectiveMonths)
         /\ IsMedianOf(forecastLocals[i].robustMoMChange,
                       RetainedChanges(forecastLocals[i].effectiveMonths))
  /\ \A i \in 1..Len(buildingPredictions) :
       /\ RLe(R(-40), buildingPredictions[i].avgMoMChangePct)
       /\ RLe(buildingPredictions[i].avgMoMChangePct, R(40))

\* A forecast whose growth rate is not 0, with a change that is retained and a
\* change between effective months that is not
C25_Witness ==
  /\ pc = "done"
  /\ Len(buildingPredictions) = 1
  /\ Len(forecastLocals[1].pctTransitions) >= 1
  /\ Len(forecastLocals[1].pctTransitions) < Len(forecastLocals[1].effectiveMonths) - 1
  /\ buildingPredictions[1].avgMoMChangePct # RZero

\* ------------------------------------------------------------------------
\* Claims about the coverage filter of the weather model
\* ------------------------------------------------------------------------

\* 60% of the median per-date coverage count
SixtyPercentOfMedian(rows) == RMul(Rat(60, 100), median(Counts(rows)))

\* Of the dates, those with a count below the share are not among the
\* covered ones, and the others are
DroppedBelow(dates, covered, share) ==
  \A i \in 1..Len(dates) :
    RLt(R(dates[i].count), share) <=> (\A j \in 1..Len(covered) : covered[j] # dates[i])

\* C26 (as stated): the coverage filter drops every date whose coverage count
\* is below 60% of the median per-date coverage count and keeps every date
\* whose count is at or above it.
C26_DropsBelowSixtyPercent ==
  (pc = "fitted" /\ weatherModel # None) =>
    \E dates \in {DatesStage} :
      \E covered \in {CoverageFiltered(dates)}, share \in {SixtyPercentOfMedian(dates)} :
        DroppedBelow(dates, covered, share)

\* The least count the filter lets pass: the share rounded down, and at
\* least 1
LeastCount(share) ==
  CHOOSE least \in { IF floored > 1 THEN floored ELSE 1 : floored \in {Floor(share)} } : TRUE

\* The dates whose count is at least the least count
DatesWithCount(rows, least) == SelectSeq(rows, LAMBDA r : r.count >= least)

\* The covered dates are the dates with the least count if these are at
\* least 10, all dates otherwise; the fitted rows are among them
CoveredFrom(dates, covered, kept) ==
  /\ covered = (IF Len(kept) >= 10 THEN kept ELSE dates)
  /\ \A i \in 1..Len(modelLocals.rows) :
       \E j \in 1..Len(covered) : covered[j] = modelLocals.rows[i]

\* C26 (amended): the coverage filter drops every date whose coverage count
\* is below max(1, 60% of the median per-date coverage count rounded down) and
\* keeps every date whose count is at or above it, provided at least 10 dates
\* are kept; otherwise it drops no date.
C26_DropsBelowFlooredShare ==
  (pc = "fitted" /\ weatherModel # None) =>
    \E dates \in {DatesStage} :
      \E covered \in {CoverageFiltered(dates)},
         kept \in {DatesWithCount(dates, LeastCount(SixtyPercentOfMedian(dates)))} :
        CoveredFrom(dates, covered, kept)

\* Eleven or twelve dates, four meters on ten of them: the median count is 4,
\* the date with one meter is dropped and the date with two meters, below
\* 60% of the median (2.4), is kept and fitted
C26_Witness ==
  /\ pc = "fitted"
  /\ weatherModel # None
  /\ \E dates \in {DatesStage} :
       /\ median(Counts(dates)) = R(4)
       /\ Len(CoverageFiltered(dates)) < Len(dates)
  /\ \E i \in 1..Len(modelLocals.rows) : modelLocals.rows[i].count = 2
  /\ \A i \in 1..Len(modelLocals.rows) : modelLocals.rows[i].count # 1

\* ------------------------------------------------------------------------
\* Claims about the utility label samples
\* ------------------------------------------------------------------------

\* The labels sampled
SampledLabels(samples) == { samples[i] : i \in 1..Len(samples) }

\* C27: after any sequence of rows the utility label samples are at most 25
\* distinct labels, each of which was the utility label of some ingested row:
\* the samples start empty and a step adds at most the label of its row.
C27_SamplesAreFewIngestedLabels ==
  /\ [](/\ Len(utilitySamples) <= 25
        /\ Cardinality(SampledLabels(utilitySamples)) = Len(utilitySamples)
        /\ (runError # None => runError[1].samples = utilitySamples))
  /\ [][pc' = "stream" =>
          \E row \in SampleRows(Len(utilitySamples)) :
            /\ Streamed(row)
            /\ SampledLabels(utilitySamples) \subseteq SampledLabels(utilitySamples')
            /\ SampledLabels(utilitySamples') \subseteq
                 SampledLabels(utilitySamples) \cup {Trim(row.utility)}]_vars

\* The run failed after more than 25 distinct labels were read: 25 are listed
C27_Witness ==
  /\ pc = "error"
  /\ Len(utilityMonthAggMap) > 25
  /\ Len(runError[1].samples) = 25


\* ------------------------------------------------------------------------
\* Claims about the month-over-month changes of a building
\* ------------------------------------------------------------------------

\* The months counted from year 0 of a label
LabelIndex(label) == label.year * 12 + label.month

\* The first label is of the calendar month directly before the second
DirectlyBefore(prevLabel, currLabel) == LabelIndex(prevLabel) + 1 = LabelIndex(currLabel)

\* C28: every month-over-month change emitted for a building compares a
\* month's total with the total of the immediately preceding month: the
\* previous-month label of the record is the month directly before its
\* current-month label.
C28_PreviousMonthDirectlyBefore ==
  \A i \in 1..Len(buildingMoMChanges) :
    DirectlyBefore(buildingMoMChanges[i].prevMonthLabel, buildingMoMChanges[i].currMonthLabel)

\* A result with a change over the turn of the year, between adjacent months,
\* and a change of the same kind between months that are not adjacent
C28_Witness ==
  /\ pc = "done"
  /\ \E i, j \in 1..Len(buildingMoMChanges) :
       /\ DirectlyBefore(buildingMoMChanges[i].prevMonthLabel,
                         buildingMoMChanges[i].currMonthLabel)
       /\ buildingMoMChanges[i].currMonthLabel.month = 1
       /\ LabelIndex(buildingMoMChanges[j].prevMonthLabel) + 1
            < LabelIndex(buildingMoMChanges[j].currMonthLabel)

\* ------------------------------------------------------------------------
\* SpecEnergy: rows of two buildings and of no building, with several
\* readings, in one hour, in two hours of a day and on two days whose month
\* depends on the zone
\* ------------------------------------------------------------------------

MaxEnergyRows == 3

\* Two instants of one hour, and one of the last evening of the month in UTC
EnergyTimes ==
  { Some(UtcInstant(2025, 1, 1, 0, 10)), Some(UtcInstant(2025, 1, 1, 0, 50)),
    Some(UtcInstant(2025, 1, 31, 23, 30)) }

\* The cells read with an instant: two buildings with their readings, and a
\* reading of no building (its name is blank)
EnergyCells ==
  { [buildingname |-> <<"H", "a", "l", "l">>, reading |-> Some(Rat(1, 2))],
    [buildingname |-> <<"H", "a", "l", "l">>, reading |-> Some(R(3))],
    [buildingname |-> <<"L", "a", "b">>, reading |-> Some(Rat(1, 2))],
    [buildingname |-> <<" ">>, reading |-> Some(R(3))] }

EnergyRow(utility, readingtime, buildingname, reading) ==
  [utility |-> utility, readingtime |-> readingtime, buildingname |-> buildingname,
   readingwindowsum |-> IF reading = None THEN None ELSE reading[1],
   temperature_2m |-> R(2), precipitation |-> RZero, wind_speed_10m |-> R(8),
   readingunitsdisplay |-> <<>>, readingunits |-> <<>>,
   grossarea |-> R(200), simscode |-> <<"0", "7">>]

\* Electricity rows, one of them with a blank reading, a row of another
\* utility and an electricity row whose readingtime is no date
EnergyRows ==
  { EnergyRow(ElectricityLabel, t, c.buildingname, c.reading) :
      t \in EnergyTimes, c \in EnergyCells }
  \cup { EnergyRow(ElectricityLabel, Some(UtcInstant(2025, 1, 1, 0, 10)),
                   <<"H", "a", "l", "l">>, None),
         EnergyRow(SteamLabel, Some(UtcInstant(2025, 1, 1, 0, 10)),
                   <<"H", "a", "l", "l">>, Some(R(7))),
         EnergyRow(ElectricLabel, None, <<"L", "a", "b">>, Some(R(5))) }

\* Offsets of the runtime's zone: UTC and India, where the last evening of
\* the month in UTC is of the next month
EnergyOffsets == { 0, 330 }

EnergyInit ==
  /\ pc = "energy"
  /\ tzOffset \in EnergyOffsets
  /\ EmptyTwo
  /\ EmptyStream
  /\ EmptySide
  /\ EmptyOut

\* The step handler of parsePrimaryCsv on one row
EnergyStep ==
  /\ pc = "energy"
  /\ rowCount < MaxEnergyRows
  /\ \E row \in EnergyRows : StepRow(row)
  /\ UNCHANGED <<pc, tzOffset, twoVars, sideVars, outVars>>

EnergyNext == EnergyStep

SpecEnergy == EnergyInit /\ [][EnergyNext]_vars

\* ------------------------------------------------------------------------
\* Claims about the conservation of energy across the bucket families
\* ------------------------------------------------------------------------

EnergyStreamed(row) == pc = "energy" /\ pc' = "energy" /\ StepRow(row)

\* The energy of all hour buckets
HourEnergy(map) == SumOf([i \in 1..Len(map) |-> map[i][2].kwh])

\* The energy of the month buckets of a building
MonthEnergy(map, name) ==
  IF MapHas(map, name)
  THEN SumOf([i \in 1..Len(MapGet(map, name)) |-> MapGet(map, name)[i][2]])
  ELSE RZero

\* The energy of the building-day buckets of a building
DayEnergy(map, name) ==
  SumOf([i \in 1..Len(map) |->
          IF map[i][2].building = name THEN map[i][2].kwh ELSE RZero])

\* The running total of a building
TotalEnergy(map, name) == IF MapHas(map, name) THEN MapGet(map, name).totalKwh ELSE RZero

\* The buildings that have a bucket of any family
BucketNames ==
  { buildingStatsMap[i][1] : i \in 1..Len(buildingStatsMap) }
  \cup { buildingMonthMap[i][1] : i \in 1..Len(buildingMonthMap) }
  \cup { bwMap[i][2].building : i \in 1..Len(bwMap) }

\* The reading of the row where it is an accepted electricity row
AcceptedReading(row) == IF PassesGate(row) THEN toNum(row.readingwindowsum) ELSE RZero

\* C29: energy is conserved across the bucket families: the hour buckets are
\* empty before the first row and every row adds its reading to their sum when
\* it is an accepted electricity row and nothing otherwise, so that after any
\* sequence of rows their sum is the sum of the readings of the accepted
\* electricity rows; and for every building the running total equals the sum
\* of its month buckets and the sum of its building-day buckets.
C29_EnergyConserved ==
  /\ [](/\ rowCount = 0 => HourEnergy(hourlyMap) = RZero
        /\ \A name \in BucketNames :
             /\ TotalEnergy(buildingStatsMap, name) = MonthEnergy(buildingMonthMap, name)
             /\ TotalEnergy(buildingStatsMap, name) = DayEnergy(bwMap, name))
  /\ [][\A row \in EnergyRows :
          EnergyStreamed(row) =>
            HourEnergy(hourlyMap') = RAdd(HourEnergy(hourlyMap), AcceptedReading(row))]_vars

\* Three accepted rows: two of one building in one month, day and hour, one
\* of no building; the hour buckets hold more than the buildings' totals
C29_Witness ==
  /\ elecRowCount = 3
  /\ Len(buildingStatsMap) = 1
  /\ Len(buildingMonthMap[1][2]) = 1
  /\ Len(bwMap) = 1
  /\ buildingStatsMap[1][2].count = 2
  /\ buildingStatsMap[1][2].totalKwh = Rat(7, 2)
  /\ HourEnergy(hourlyMap) = Rat(13, 2)

\* ------------------------------------------------------------------------
\* Claims about the columns the validator accepts and the step handler reads
\* ------------------------------------------------------------------------

\* The record the step handler reads from the line when the header is the
\* required names in lower case
ReadUnderLowerCase(src) ==
  CellsRead(normalizeRowKeys(RawRow(RequiredOf(src), LineUnder(RequiredOf(src)))))

\* C30: the validator and the record normalizer agree on columns: when the
\* header of a source passed schema validation, every required column is read
\* from the row under its required name, and the aggregates after the row are
\* those that the same row yields under the header in lower case.
C30_ValidatedColumnsAreRead ==
  pc = "read" =>
    /\ \A k \in 1..Len(RequiredOf(source)) :
         Lookup(normalizeRowKeys(RawRow(header, LineUnder(header))), RequiredOf(source)[k])
           = Some(LineCell(RequiredOf(source)[k]))
    /\ elecRowCount = 1
    /\ hourlyMap = HourlyMapAfter(<<>>, ReadUnderLowerCase(source), tzOffset)
    /\ buildingStatsMap = BuildingStatsMapAfter(<<>>, ReadUnderLowerCase(source))
    /\ buildingMonthMap = BuildingMonthMapAfter(<<>>, ReadUnderLowerCase(source), tzOffset)
    /\ siteMap = SiteMapAfter(<<>>, ReadUnderLowerCase(source))

\* The header of the primary source was written with UTILITY in upper case
\* and passed validation; the row under it was counted and not accepted
C30_Witness ==
  /\ pc = "read"
  /\ source = "meter_building_weather_merged.csv"
  /\ validation = Some(None)
  /\ header[2] = <<"U", "T", "I", "L", "I", "T", "Y">>
  /\ rowCount = 1
  /\ elecRowCount = 0
  /\ hourlyMap = <<>>
====
